---- MODULE Spec2Model ----
(***************************************************************************)
(* Essence.io backend: the GameWorld simulation (systems/GameWorld), its   *)
(* entity kinds (Player, Essence, NPC), the Quadtree spatial index and the *)
(* game loop and connection handlers of server.js.                         *)
(*                                                                         *)
(* Numbers.  The program computes in IEEE doubles.  The model computes in  *)
(* fixed point: lengths in tenths of a world unit, velocities in tenths of *)
(* a unit per second, times in milliseconds, factors in hundredths or      *)
(* thousandths.  Every division rounds to the nearest integer.             *)
(* Math.random() and Date.now() are inputs, drawn from the small sets      *)
(* below.                                                                  *)
(***************************************************************************)
EXTENDS Integers, Sequences, FiniteSets, TLC

(***************************************************************************)
(* GameConfig                                                              *)
(***************************************************************************)
SERVER_TICK_RATE == 60
WORLD_WIDTH == 2000
WORLD_HEIGHT == 2000
PLAYER_BASE_RADIUS == 8
PLAYER_ACCELERATION == 300
PLAYER_MAX_VELOCITY == 250
\* PLAYER_FRICTION 0.08, in hundredths
PLAYER_FRICTION_PCT == 8
\* ESSENCE_RADIUS_MULTIPLIER 0.3, in tenths
ESSENCE_RADIUS_MULTIPLIER_TENTHS == 3
POSITION_UPDATE_THRESHOLD == 5
ESSENCE_ATTRACTION_RANGE == 200
ESSENCE_ATTRACTION_FORCE == 50
NPC_RADIUS == 6
NPC_SPEED == 80
VISIBILITY_DISTANCE == 1000
\* Essence.update: velocity *= 0.95, in hundredths
ESSENCE_DAMPING_PCT == 95
\* NPC.update: velocity += (target - velocity) * 0.1, as a divisor
NPC_BLEND_DIV == 10
\* Quadtree(bounds, 4, 8) as constructed by GameWorld
QT_MAX_ENTITIES == 4
QT_MAX_DEPTH == 8

\* ESSENCE_RADIUS by rarity, and the fallback "|| 3"
ESSENCE_RADIUS ==
  [common |-> 3, uncommon |-> 4, rare |-> 5, epic |-> 6, legendary |-> 8]

(***************************************************************************)
(* Bounds of the model.  The population sizes stand for                    *)
(* INITIAL_ESSENCE_COUNT (1000), MIN_ESSENCE_COUNT (500) and               *)
(* INITIAL_NPC_COUNT (50) of GameConfig, scaled down.                      *)
(***************************************************************************)
INITIAL_ESSENCE_COUNT == 2
MIN_ESSENCE_COUNT == 1
INITIAL_NPC_COUNT == 1
MaxTicks == 3
MaxClients == 1
MaxPlayers == 1
MaxBuffer == 2

\* a length of the program, in tenths of a unit
Tenths(u) == u * 10

W == Tenths(WORLD_WIDTH)
H == Tenths(WORLD_HEIGHT)

\* values of Math.random() * WORLD_SIZE for a spawn, as <<x, y>> in tenths
SpawnPoints == { <<10010, 10000>>, <<10110, 10000>>, <<100, 10000>> }
\* outcomes of Essence.getRandomRarity
Rarities == { "common" }
\* values of NPC spawn positions
NpcSpawnPoints == { <<10040, 10000>> }
\* values of 1 + Math.random() * 2 seconds, in ms
AiIntervals == { 2500 }
\* values of (cos, sin) of Math.random() * 2 PI, in thousandths
Angles == { <<-1000, 0>>, <<707, -707>> }
\* values of (now - lastTickTime), in ms: a slow tick and a long stall
DeltaTimes == { 1000, 250000 }
\* buffered samples: { input: { keys } }, { input: {} } and { input: undefined }
KeySets == { {"a"}, {"d"} }
InputSamples ==
  { [defined |-> TRUE, keys |-> k] : k \in KeySets }
    \cup { [defined |-> FALSE, keys |-> {}] }

(***************************************************************************)
(* Arithmetic                                                              *)
(***************************************************************************)
Abs(a) == IF a < 0 THEN -a ELSE a
Sign(a) == IF a < 0 THEN -1 ELSE IF a > 0 THEN 1 ELSE 0
Min(a, b) == IF a < b THEN a ELSE b
Max(a, b) == IF a > b THEN a ELSE b

\* a / b rounded to the nearest integer, b > 0
RoundDiv(a, b) == Sign(a) * ((2 * Abs(a) + b) \div (2 * b))

RECURSIVE SqrtIter(_, _)
SqrtIter(n, r) ==
  LET r2 == (r + n \div r) \div 2
  IN  IF r2 >= r THEN r ELSE SqrtIter(n, r2)

\* floor of the square root
ISqrt(n) == IF n < 2 THEN n ELSE SqrtIter(n, n \div 2 + 1)

\* Math.hypot(dx, dy), rounded down; Hypot(dx, dy) < r iff the real one is
Hypot(dx, dy) == ISqrt(dx * dx + dy * dy)

\* Math.atan2(y, x) in degrees, to the nearest multiple of 45
Atan2(y, x) ==
  IF x = 0 /\ y = 0 THEN 0
  ELSE LET ax == Abs(x)
           ay == Abs(y)
           oct == IF 5 * ay < 2 * ax THEN 0
                  ELSE IF 5 * ax < 2 * ay THEN 90 ELSE 45
           q == IF x >= 0 THEN oct ELSE 180 - oct
       IN  IF y >= 0 THEN q ELSE -q

\* Math.pow(n / 100, 0.3) in thousandths
SizePenalty(n) ==
  CASE n = 0 -> 0
    [] n = 1 -> 251
    [] n = 2 -> 309
    [] n = 3 -> 349
    [] n = 4 -> 381
    [] n = 5 -> 407
    [] n = 6 -> 430
    [] n = 7 -> 450
    [] n = 8 -> 469
    [] n = 9 -> 486
    [] n = 10 -> 501
    [] n = 11 -> 516
    [] n = 12 -> 529
    [] n = 50 -> 812
    [] n = 100 -> 1000
    [] n = 101 -> 1003
    [] n = 200 -> 1231

Vec(x, y) == [x |-> x, y |-> y]

RECURSIVE IndexOf(_, _, _)
\* first index i >= from with s[i].id = id, or 0
IndexOf(s, id, from) ==
  IF from > Len(s) THEN 0
  ELSE IF s[from].id = id THEN from ELSE IndexOf(s, id, from + 1)

HasId(s, id) == IndexOf(s, id, 1) # 0
Get(s, id) == s[IndexOf(s, id, 1)]
\* Map.delete(id): the entries keep their insertion order
Delete(s, id) == SelectSeq(s, LAMBDA e : e.id # id)
\* replace entry i of s
Put(s, i, e) == [s EXCEPT ![i] = e]

(***************************************************************************)
(* Quadtree (utils/Quadtree).  A node is a record; entities is the node's  *)
(* Map as a sequence of [id, bounds] in insertion order; children is <<>>  *)
(* for null.                                                               *)
(***************************************************************************)
Rect(x, y, w, h) == [x |-> x, y |-> y, width |-> w, height |-> h]

QtNode(bounds, depth) ==
  [bounds |-> bounds, depth |-> depth, entities |-> <<>>,
   divided |-> FALSE, children |-> <<>>]

intersects(rect1, rect2) ==
  ~(\/ rect2.x > rect1.x + rect1.width
    \/ rect2.x + rect2.width < rect1.x
    \/ rect2.y > rect1.y + rect1.height
    \/ rect2.y + rect2.height < rect1.y)

subdivide(node) ==
  LET x == node.bounds.x
      y == node.bounds.y
      w == node.bounds.width \div 2
      h == node.bounds.height \div 2
      d == node.depth + 1
  IN  [node EXCEPT
        !.children = << QtNode(Rect(x, y, w, h), d),
                        QtNode(Rect(x + w, y, w, h), d),
                        QtNode(Rect(x, y + h, w, h), d),
                        QtNode(Rect(x + w, y + h, w, h), d) >>,
        !.divided = TRUE]

\* Map.set(id, bounds): a present key keeps its place
MapSet(entities, id, bounds) ==
  LET i == IndexOf(entities, id, 1)
      e == [id |-> id, bounds |-> bounds]
  IN  IF i = 0 THEN Append(entities, e) ELSE Put(entities, i, e)

RECURSIVE insert(_, _, _)
RECURSIVE insertChildren(_, _, _, _)

\* insert(id, bounds): [ok |-> the returned boolean, node |-> the node after]
insert(node, id, bounds) ==
  IF ~intersects(node.bounds, bounds)
    THEN [ok |-> FALSE, node |-> node]
  ELSE IF Len(node.entities) < QT_MAX_ENTITIES \/ node.depth >= QT_MAX_DEPTH
    THEN [ok |-> TRUE,
          node |-> [node EXCEPT !.entities = MapSet(@, id, bounds)]]
  ELSE LET n1 == IF node.divided THEN node ELSE subdivide(node)
           r == insertChildren(n1.children, 1, id, bounds)
       IN  [ok |-> r.ok, node |-> [n1 EXCEPT !.children = r.children]]

\* the loop over the children without the early return: every child that
\* accepts the bounds stores the id
insertChildrenEvery(children, i, id, bounds) ==
  [ok |-> \E k \in i..Len(children) : insert(children[k], id, bounds).ok,
   children |-> [k \in 1..Len(children) |->
                   IF k >= i THEN insert(children[k], id, bounds).node
                   ELSE children[k]]]

\* for (let child of this.children) if (child.insert(id, bounds)) return true
insertChildren(children, i, id, bounds) ==
  IF i > Len(children) THEN [ok |-> FALSE, children |-> children]
  ELSE LET r == insert(children[i], id, bounds)
       IN  IF r.ok
             THEN [ok |-> TRUE, children |-> Put(children, i, r.node)]
             ELSE insertChildren(Put(children, i, r.node), i + 1, id, bounds)

RECURSIVE search(_, _)
RECURSIVE searchChildren(_, _, _)

\* search(searchBounds): the found ids, in order
search(node, searchBounds) ==
  IF ~intersects(node.bounds, searchBounds) THEN <<>>
  ELSE [i \in 1..Len(node.entities) |-> node.entities[i].id]
         \o (IF node.divided
               THEN searchChildren(node.children, 1, searchBounds)
               ELSE <<>>)

searchChildren(children, i, searchBounds) ==
  IF i > Len(children) THEN <<>>
  ELSE search(children[i], searchBounds)
         \o searchChildren(children, i + 1, searchBounds)

\* clear()
clear(node) ==
  [node EXCEPT !.entities = <<>>, !.divided = FALSE, !.children = <<>>]

RECURSIVE StoredIds(_)
RECURSIVE StoredIdsOf(_, _)
\* every id stored anywhere in the tree, with repetitions
StoredIds(node) ==
  [i \in 1..Len(node.entities) |-> node.entities[i].id]
    \o StoredIdsOf(node.children, 1)

StoredIdsOf(children, i) ==
  IF i > Len(children) THEN <<>>
  ELSE StoredIds(children[i]) \o StoredIdsOf(children, i + 1)

Range(s) == { s[i] : i \in 1..Len(s) }

(***************************************************************************)
(* Player (entities/Player)                                                *)
(***************************************************************************)
\* new Player(id, name, clientId, x, y); essences holds the collected ids
NewPlayer(id, clientId, x, y) ==
  [id |-> id, clientId |-> clientId,
   position |-> Vec(x, y), velocity |-> Vec(0, 0), rotation |-> 0,
   maxVelocity |-> Tenths(PLAYER_MAX_VELOCITY),
   radius |-> Tenths(PLAYER_BASE_RADIUS),
   essences |-> <<>>,
   lastSignificantPosition |-> Vec(x, y)]

\* keys.includes(k1) || keys.includes(k2)
Pressed(keys, k1, k2) == k1 \in keys \/ k2 \in keys

\* Player.updateVelocity(keys)
updateVelocity(p, keys) ==
  LET acc == Tenths(PLAYER_ACCELERATION)
      ay0 == (IF Pressed(keys, "w", "ArrowUp") THEN -acc ELSE 0)
               + (IF Pressed(keys, "s", "ArrowDown") THEN acc ELSE 0)
      ax0 == (IF Pressed(keys, "a", "ArrowLeft") THEN -acc ELSE 0)
               + (IF Pressed(keys, "d", "ArrowRight") THEN acc ELSE 0)
      magnitude == Hypot(ax0, ay0)
      ax == IF magnitude > 0 THEN RoundDiv(ax0 * acc, magnitude) ELSE ax0
      ay == IF magnitude > 0 THEN RoundDiv(ay0 * acc, magnitude) ELSE ay0
      vx1 == RoundDiv((p.velocity.x + RoundDiv(ax, SERVER_TICK_RATE))
                        * (100 - PLAYER_FRICTION_PCT), 100)
      vy1 == RoundDiv((p.velocity.y + RoundDiv(ay, SERVER_TICK_RATE))
                        * (100 - PLAYER_FRICTION_PCT), 100)
      velocityMagnitude == Hypot(vx1, vy1)
      over == velocityMagnitude > p.maxVelocity
      vx == IF over THEN RoundDiv(vx1 * p.maxVelocity, velocityMagnitude)
                    ELSE vx1
      vy == IF over THEN RoundDiv(vy1 * p.maxVelocity, velocityMagnitude)
                    ELSE vy1
  IN  [p EXCEPT
        !.velocity = Vec(vx, vy),
        \* velocityMagnitude > 0.1, that is more than one tenth
        !.rotation = IF vx1 * vx1 + vy1 * vy1 > 1 THEN Atan2(vy, vx) ELSE @]

\* Math.max(lo, Math.min(hi, v))
Clamp(lo, hi, v) == Max(lo, Min(hi, v))

\* position += velocity * deltaTime, deltaTime in ms
Integrate(pos, vel, deltaTime) ==
  Vec(pos.x + RoundDiv(vel.x * deltaTime, 1000),
      pos.y + RoundDiv(vel.y * deltaTime, 1000))

\* Player.update that also turns the player to face its displacement
PlayerUpdateTurning(p, deltaTime) ==
  LET moved == Integrate(p.position, p.velocity, deltaTime)
      n == Len(p.essences)
      x == Clamp(p.radius, W - p.radius, moved.x)
      y == Clamp(p.radius, H - p.radius, moved.y)
  IN  [p EXCEPT
        !.position = Vec(x, y),
        !.rotation = Atan2(y - p.position.y, x - p.position.x),
        !.radius = Tenths(PLAYER_BASE_RADIUS)
                     + n * ESSENCE_RADIUS_MULTIPLIER_TENTHS,
        !.maxVelocity = Tenths(PLAYER_MAX_VELOCITY)
                          - RoundDiv(Tenths(PLAYER_MAX_VELOCITY)
                                       * SizePenalty(n), 2000)]

\* Player.update(deltaTime): the clamp uses the radius of before the update
PlayerUpdate(p, deltaTime) ==
  LET moved == Integrate(p.position, p.velocity, deltaTime)
      n == Len(p.essences)
  IN  [p EXCEPT
        !.position = Vec(Clamp(p.radius, W - p.radius, moved.x),
                         Clamp(p.radius, H - p.radius, moved.y)),
        !.radius = Tenths(PLAYER_BASE_RADIUS)
                     + n * ESSENCE_RADIUS_MULTIPLIER_TENTHS,
        !.maxVelocity = Tenths(PLAYER_MAX_VELOCITY)
                          - RoundDiv(Tenths(PLAYER_MAX_VELOCITY)
                                       * SizePenalty(n), 2000)]

\* Player.addEssence(essence)
addEssence(p, essenceId) == [p EXCEPT !.essences = Append(@, essenceId)]

\* hasMovedSignificantly reporting every move, however small
hasMovedSignificantlyAnyMove(p) ==
  LET dx == p.position.x - p.lastSignificantPosition.x
      dy == p.position.y - p.lastSignificantPosition.y
  IN  IF dx * dx + dy * dy > 0
        THEN [moved |-> TRUE,
              player |-> [p EXCEPT !.lastSignificantPosition = p.position]]
        ELSE [moved |-> FALSE, player |-> p]

\* Player.hasMovedSignificantly(): [moved |-> the result, player |-> after]
hasMovedSignificantly(p) ==
  LET dx == p.position.x - p.lastSignificantPosition.x
      dy == p.position.y - p.lastSignificantPosition.y
      t == Tenths(POSITION_UPDATE_THRESHOLD)
  IN  IF dx * dx + dy * dy > t * t
        THEN [moved |-> TRUE,
              player |-> [p EXCEPT !.lastSignificantPosition = p.position]]
        ELSE [moved |-> FALSE, player |-> p]

\* getBounds() of Player, Essence and NPC
getBounds(e) ==
  Rect(e.position.x - e.radius, e.position.y - e.radius,
       e.radius * 2, e.radius * 2)

(***************************************************************************)
(* Essence (entities/Essence)                                              *)
(***************************************************************************)
\* new Essence(id, x, y, type) with the rarity drawn by getRandomRarity
NewEssence(id, x, y, rarity) ==
  [id |-> id, position |-> Vec(x, y), velocity |-> Vec(0, 0),
   radius |-> Tenths(ESSENCE_RADIUS[rarity])]

\* Essence.update without the Math.max / Math.min of the position
EssenceUpdateUnclamped(e, deltaTime) ==
  [e EXCEPT
    !.velocity = Vec(RoundDiv(e.velocity.x * ESSENCE_DAMPING_PCT, 100),
                     RoundDiv(e.velocity.y * ESSENCE_DAMPING_PCT, 100)),
    !.position = Integrate(e.position, e.velocity, deltaTime)]

\* Essence.update(deltaTime)
EssenceUpdate(e, deltaTime) ==
  LET moved == Integrate(e.position, e.velocity, deltaTime)
  IN  [e EXCEPT
        !.velocity = Vec(RoundDiv(e.velocity.x * ESSENCE_DAMPING_PCT, 100),
                         RoundDiv(e.velocity.y * ESSENCE_DAMPING_PCT, 100)),
        !.position = Vec(Clamp(0, W, moved.x), Clamp(0, H, moved.y))]

(***************************************************************************)
(* NPC (entities/NPC)                                                      *)
(***************************************************************************)
\* new NPC(id, x, y) with aiUpdateInterval drawn in [1, 3) seconds
NewNPC(id, x, y, interval) ==
  [id |-> id, position |-> Vec(x, y), velocity |-> Vec(0, 0), rotation |-> 0,
   radius |-> Tenths(NPC_RADIUS), aiTimer |-> 0,
   aiUpdateInterval |-> interval, targetVelocity |-> Vec(0, 0)]

\* the wrap of one coordinate placing the NPC on the edge itself
WrapOntoEdge(v, size, radius) ==
  LET v1 == IF v < -radius THEN size ELSE v
  IN  IF v1 > size + radius THEN 0 ELSE v1

\* the wrap of one coordinate: the two ifs of NPC.update, in order
Wrap(v, size, radius) ==
  LET v1 == IF v < -radius THEN size + radius ELSE v
  IN  IF v1 > size + radius THEN -radius ELSE v1

\* NPC.update(deltaTime); angle and interval are the values drawn when the
\* AI timer fires
NPCUpdate(n, deltaTime, angle, interval) ==
  LET timer == n.aiTimer + deltaTime
      fires == timer >= n.aiUpdateInterval
      target == IF fires
                  THEN Vec(RoundDiv(angle[1] * Tenths(NPC_SPEED), 1000),
                           RoundDiv(angle[2] * Tenths(NPC_SPEED), 1000))
                  ELSE n.targetVelocity
      vel == Vec(n.velocity.x
                   + RoundDiv(target.x - n.velocity.x, NPC_BLEND_DIV),
                 n.velocity.y
                   + RoundDiv(target.y - n.velocity.y, NPC_BLEND_DIV))
      moved == Integrate(n.position, vel, deltaTime)
  IN  [n EXCEPT
        !.aiTimer = IF fires THEN 0 ELSE timer,
        !.aiUpdateInterval = IF fires THEN interval ELSE @,
        !.targetVelocity = target,
        !.velocity = vel,
        !.position = Vec(Wrap(moved.x, W, n.radius),
                         Wrap(moved.y, H, n.radius)),
        !.rotation = IF vel.x * vel.x + vel.y * vel.y > 1
                       THEN Atan2(vel.y, vel.x) ELSE @]

(***************************************************************************)
(* GameWorld (systems/GameWorld).  The three Maps are sequences in         *)
(* insertion order.  An entity id is the n of `entity_n`.  An event that   *)
(* holds a reference to an entity object holds its id: the position read   *)
(* through it is the entity's current one.                                 *)
(***************************************************************************)
VARIABLES
  players, essences, npcs,   \* the three collections
  tick,                      \* this.tick
  entityIdCounter,           \* this.entityIdCounter
  deltaUpdates,              \* this.deltaUpdates, the change buffer
  quadtree,                  \* this.quadtree
  clients,                   \* server.js: the clients Map, in insertion order
  connected,                 \* the number of connections accepted so far
  pc,                        \* where serverGameLoop is; "idle" between loops
  deltaTime,                 \* deltaTime of the running loop, in ms
  cursor,                    \* attraction pass: index of the player at turn
  candidate,                 \* attraction pass: index into nearbyEssences
  applied,                   \* the processPlayerInput calls of the last loop
  stateUpdates,              \* what getDeltaUpdates returned to the last loop
  batches,                   \* the sendBatch calls of the last loop
  crashed,                   \* an exception left serverGameLoop uncaught
  lastReported,              \* history: id of a player or NPC |-> the position
                             \* of the last playerAdded, npcAdded or
                             \* entityMoved event recorded for it
  qtInserted,                \* quadtree alone: the insert calls made so far
  qtSearch,                  \* quadtree alone: the last search, if any
  calls                      \* entry points alone: the calls made so far

vars ==
  << players, essences, npcs, tick, entityIdCounter, deltaUpdates, quadtree,
     clients, connected, pc, deltaTime, cursor, candidate, applied,
     stateUpdates, batches, crashed, lastReported, qtInserted, qtSearch,
     calls >>

\* the variables of the specification of the quadtree alone
QtVars == << qtInserted, qtSearch, calls >>

\* the part of the GameWorld the factory operations work on
World ==
  [players |-> players, essences |-> essences, npcs |-> npcs,
   entityIdCounter |-> entityIdCounter, deltaUpdates |-> deltaUpdates]

SetWorld(w) ==
  /\ players' = w.players
  /\ essences' = w.essences
  /\ npcs' = w.npcs
  /\ entityIdCounter' = w.entityIdCounter
  /\ deltaUpdates' = w.deltaUpdates

\* getNextEntityId numbering by the present size of the three collections
getNextEntityIdBySize(w) ==
  Len(w.players) + Len(w.essences) + Len(w.npcs) + 1

\* getNextEntityId(): ++this.entityIdCounter
getNextEntityId(w) == w.entityIdCounter + 1

\* addPlayer(clientId, playerName)
addPlayer(w, clientId) ==
  LET id == getNextEntityId(w)
  IN  [w EXCEPT
        !.entityIdCounter = id,
        !.players = Append(@, NewPlayer(id, clientId, W \div 2, H \div 2)),
        !.deltaUpdates = Append(@, [type |-> "playerAdded", entity |-> id])]

\* removePlayer without the if (player) guard
removePlayerUnguarded(w, playerId) ==
  [w EXCEPT
    !.players = Delete(@, playerId),
    !.deltaUpdates =
      Append(@, [type |-> "playerRemoved", entityId |-> playerId])]

\* removePlayer(playerId)
removePlayer(w, playerId) ==
  IF HasId(w.players, playerId)
    THEN [w EXCEPT
           !.players = Delete(@, playerId),
           !.deltaUpdates =
             Append(@, [type |-> "playerRemoved", entityId |-> playerId])]
    ELSE w

\* spawnEssence without this.essences.set(id, essence)
spawnEssenceUnstored(w, x, y, rarity) ==
  LET id == getNextEntityId(w)
  IN  [w EXCEPT
        !.entityIdCounter = id,
        !.deltaUpdates = Append(@, [type |-> "essenceAdded", entity |-> id])]

\* spawnEssence(x, y)
spawnEssence(w, x, y, rarity) ==
  LET id == getNextEntityId(w)
  IN  [w EXCEPT
        !.entityIdCounter = id,
        !.essences = Append(@, NewEssence(id, x, y, rarity)),
        !.deltaUpdates = Append(@, [type |-> "essenceAdded", entity |-> id])]

\* spawnNPC(x, y)
spawnNPC(w, x, y, interval) ==
  LET id == getNextEntityId(w)
  IN  [w EXCEPT
        !.entityIdCounter = id,
        !.npcs = Append(@, NewNPC(id, x, y, interval)),
        !.deltaUpdates = Append(@, [type |-> "npcAdded", entity |-> id])]

RECURSIVE SpawnEssences(_, _, _)
\* spawnEssence for draws[i], draws[i + 1], ...; a draw is <<point, rarity>>
SpawnEssences(w, draws, i) ==
  IF i > Len(draws) THEN w
  ELSE SpawnEssences(
         spawnEssence(w, draws[i][1][1], draws[i][1][2], draws[i][2]),
         draws, i + 1)

RECURSIVE SpawnNPCs(_, _, _)
\* spawnNPC for draws[i], draws[i + 1], ...; a draw is <<point, interval>>
SpawnNPCs(w, draws, i) ==
  IF i > Len(draws) THEN w
  ELSE SpawnNPCs(spawnNPC(w, draws[i][1][1], draws[i][1][2], draws[i][2]),
                 draws, i + 1)

\* initializeWorld()
initializeWorld(w, essenceDraws, npcDraws) ==
  SpawnNPCs(SpawnEssences(w, essenceDraws, 1), npcDraws, 1)

\* the constructor of GameWorld, and the module state of server.js
Init ==
  /\ \E ed \in [1..INITIAL_ESSENCE_COUNT -> SpawnPoints \X Rarities],
        nd \in [1..INITIAL_NPC_COUNT -> NpcSpawnPoints \X AiIntervals] :
       LET w == initializeWorld(
                  [players |-> <<>>, essences |-> <<>>, npcs |-> <<>>,
                   entityIdCounter |-> 0, deltaUpdates |-> <<>>], ed, nd)
       IN  /\ players = w.players
           /\ essences = w.essences
           /\ npcs = w.npcs
           /\ entityIdCounter = w.entityIdCounter
           /\ deltaUpdates = w.deltaUpdates
  /\ tick = 0
  /\ quadtree = QtNode(Rect(0, 0, W, H), 0)
  /\ clients = <<>>
  /\ connected = 0
  /\ pc = "idle"
  /\ deltaTime = 0
  /\ cursor = 0
  /\ candidate = 0
  /\ applied = <<>>
  /\ stateUpdates = <<>>
  /\ batches = <<>>
  /\ crashed = FALSE
  /\ lastReported = [id \in { npcs[i].id : i \in 1..Len(npcs) } |->
                       Get(npcs, id).position]
  /\ qtInserted = <<>>
  /\ qtSearch = <<>>
  /\ calls = <<>>

(***************************************************************************)
(* server.js: connections.  A connection is [clientId, player, inputBuffer,*)
(* isAlive]; player is the id of connection.player, 0 for null.            *)
(***************************************************************************)
Idle == pc = "idle" /\ ~crashed

LoopVars == << pc, deltaTime, cursor, candidate, applied, stateUpdates, batches >>

\* wss.on('connection'): new ClientConnection(ws, clientId)
Connect ==
  /\ Idle
  /\ connected < MaxClients
  /\ connected' = connected + 1
  /\ clients' = Append(clients, [clientId |-> connected + 1, player |-> 0,
                                 inputBuffer |-> <<>>, isAlive |-> TRUE])
  /\ UNCHANGED << players, essences, npcs, tick, entityIdCounter,
                  deltaUpdates, quadtree, crashed >>
  /\ UNCHANGED LoopVars
  /\ UNCHANGED << lastReported, qtInserted, qtSearch, calls >>

\* the body of handlePlayerJoin: addPlayer, connection.player = player
Joined(c) ==
  LET w == addPlayer(World, clients[c].clientId)
  IN  /\ SetWorld(w)
      /\ clients' = [clients EXCEPT ![c].player = w.entityIdCounter]
      /\ lastReported' =
           lastReported @@ (w.entityIdCounter :>
                              Get(w.players, w.entityIdCounter).position)

\* handlePlayerJoin(connection, data)
handlePlayerJoin(c) ==
  /\ Idle
  /\ Len(players) < MaxPlayers
  /\ Joined(c)
  /\ UNCHANGED << tick, quadtree, connected, crashed >>
  /\ UNCHANGED LoopVars
  /\ UNCHANGED QtVars

\* the body of handlePlayerInput: if (!connection.player) return; push
Buffered(c, sample) ==
  clients' = IF clients[c].player = 0 THEN clients
             ELSE [clients EXCEPT ![c].inputBuffer = Append(@, sample)]

\* handlePlayerInput(connection, data): the sample { timestamp, input }
handlePlayerInput(c, sample) ==
  /\ Idle
  /\ Len(clients[c].inputBuffer) < MaxBuffer
  /\ Buffered(c, sample)
  /\ UNCHANGED << players, essences, npcs, tick, entityIdCounter,
                  deltaUpdates, quadtree, connected, crashed >>
  /\ UNCHANGED LoopVars
  /\ UNCHANGED << lastReported, qtInserted, qtSearch, calls >>

\* the body of ws.on('close'): removePlayer if joined, clients.delete(ws)
Closed(c) ==
  /\ SetWorld(IF clients[c].player # 0
                THEN removePlayer(World, clients[c].player) ELSE World)
  /\ clients' = SelectSeq(clients,
                          LAMBDA k : k.clientId # clients[c].clientId)
  /\ lastReported' = [id \in DOMAIN lastReported \ {clients[c].player} |->
                        lastReported[id]]

\* ws.on('close'): handlePlayerDisconnect(connection); clients.delete(ws)
handlePlayerDisconnect(c) ==
  /\ Idle
  /\ Closed(c)
  /\ UNCHANGED << tick, quadtree, connected, crashed >>
  /\ UNCHANGED LoopVars
  /\ UNCHANGED QtVars

(***************************************************************************)
(* server.js: serverGameLoop, first part.                                  *)
(***************************************************************************)
\* processPlayerInput reading input.keys before looking the player up
processPlayerInputUnguarded(ps, playerId, input) ==
  LET i == IndexOf(ps, playerId, 1)
  IN  IF ~input.defined THEN [players |-> ps, throws |-> TRUE]
      ELSE IF i = 0 THEN [players |-> ps, throws |-> FALSE]
      ELSE [players |-> Put(ps, i, updateVelocity(ps[i], input.keys)),
            throws |-> FALSE]

\* processPlayerInput(playerId, input): input.keys throws on undefined
processPlayerInput(ps, playerId, input) ==
  LET i == IndexOf(ps, playerId, 1)
  IN  IF i = 0 THEN [players |-> ps, throws |-> FALSE]
      ELSE IF ~input.defined THEN [players |-> ps, throws |-> TRUE]
      ELSE [players |-> Put(ps, i, updateVelocity(ps[i], input.keys)),
            throws |-> FALSE]

\* inputBuffer.pop() in place of shift(): the youngest sample
ShiftYoungest(buffer) ==
  [head |-> buffer[Len(buffer)], rest |-> SubSeq(buffer, 1, Len(buffer) - 1)]

\* inputBuffer.shift(): [head, rest]
Shift(buffer) == [head |-> Head(buffer), rest |-> Tail(buffer)]

RECURSIVE DrainInputs(_, _)
\* clients.forEach(connection => { shift one sample and apply it }) from
\* connection i on; st is [players, clients, applied, throws]
DrainInputs(st, i) ==
  IF i > Len(st.clients) \/ st.throws THEN st
  ELSE LET c == st.clients[i]
       IN  IF c.player # 0 /\ Len(c.inputBuffer) > 0
             THEN LET sh == Shift(c.inputBuffer)
                      r == processPlayerInput(st.players, c.player, sh.head)
                  IN  DrainInputs(
                        [players |-> r.players,
                         clients |-> [st.clients EXCEPT
                                        ![i].inputBuffer = sh.rest],
                         applied |-> IF r.throws THEN st.applied
                                     ELSE Append(st.applied,
                                            [clientId |-> c.clientId,
                                             playerId |-> c.player,
                                             input |-> sh.head]),
                         throws |-> r.throws],
                        i + 1)
             ELSE DrainInputs(st, i + 1)

\* serverGameLoop up to the call of gameWorld.update(deltaTime)
LoopInputs ==
  /\ Idle
  /\ tick < MaxTicks
  /\ \E dt \in DeltaTimes : deltaTime' = dt
  /\ LET st == DrainInputs([players |-> players, clients |-> clients,
                            applied |-> <<>>, throws |-> FALSE], 1)
     IN  /\ players' = st.players
         /\ clients' = st.clients
         /\ applied' = st.applied
         /\ crashed' = st.throws
         /\ pc' = IF st.throws THEN "idle" ELSE "players"
  /\ UNCHANGED << essences, npcs, tick, entityIdCounter, deltaUpdates,
                  quadtree, connected, cursor, candidate, stateUpdates,
                  batches >>
  /\ UNCHANGED << lastReported, qtInserted, qtSearch, calls >>

(***************************************************************************)
(* GameWorld.update(deltaTime), phase by phase.  The loop is one callback  *)
(* of a single thread: between LoopInputs and Broadcast no other handler   *)
(* runs.                                                                   *)
(***************************************************************************)
At(phase) == pc = phase /\ ~crashed

\* trackDelta(entity) for a player: Player defines hasMovedSignificantly
trackDelta(p, deltas) ==
  LET r == hasMovedSignificantly(p)
  IN  [entity |-> r.player,
       deltaUpdates |->
         IF r.moved
           THEN Append(deltas, [type |-> "entityMoved", entity |-> p.id,
                                rotation |-> p.rotation])
           ELSE deltas]

\* trackDelta(entity) for an NPC: NPC defines no hasMovedSignificantly, the
\* guard `entity.hasMovedSignificantly && ...` is false
trackDeltaNPC(n, deltas) == [entity |-> n, deltaUpdates |-> deltas]

\* lastReported after the entityMoved events of deltas, recorded for entities
\* of ents at their current position
RecordMoves(prev, deltas, ents) ==
  [id \in DOMAIN prev |->
     IF \E k \in 1..Len(deltas) :
          deltas[k].type = "entityMoved" /\ deltas[k].entity = id
       THEN Get(ents, id).position
       ELSE prev[id]]

RECURSIVE UpdatePlayersFrom(_, _, _, _)
\* this.players.forEach(player => { player.update(dt); trackDelta(player) })
UpdatePlayersFrom(ps, deltas, dt, i) ==
  IF i > Len(ps) THEN [players |-> ps, deltaUpdates |-> deltas]
  ELSE LET r == trackDelta(PlayerUpdate(ps[i], dt), deltas)
       IN  UpdatePlayersFrom(Put(ps, i, r.entity), r.deltaUpdates, dt, i + 1)

\* the start of update() without `this.deltaUpdates = []`
UpdatePlayersKeepingBuffer ==
  /\ At("players")
  /\ tick' = tick + 1
  /\ LET r == UpdatePlayersFrom(players, deltaUpdates, deltaTime, 1)
     IN  /\ players' = r.players
         /\ deltaUpdates' = r.deltaUpdates
         /\ lastReported' =
              RecordMoves(lastReported,
                          SubSeq(r.deltaUpdates, Len(deltaUpdates) + 1,
                                 Len(r.deltaUpdates)),
                          r.players)
  /\ pc' = "npcs"
  /\ UNCHANGED << essences, npcs, entityIdCounter, quadtree, clients,
                  connected, deltaTime, cursor, candidate, applied,
                  stateUpdates, batches, crashed >>
  /\ UNCHANGED QtVars

\* update(): this.tick++, this.deltaUpdates = [], then the players
UpdatePlayers ==
  /\ At("players")
  /\ tick' = tick + 1
  /\ LET r == UpdatePlayersFrom(players, <<>>, deltaTime, 1)
     IN  /\ players' = r.players
         /\ deltaUpdates' = r.deltaUpdates
         /\ lastReported' = RecordMoves(lastReported, r.deltaUpdates,
                                        r.players)
  /\ pc' = "npcs"
  /\ UNCHANGED << essences, npcs, entityIdCounter, quadtree, clients,
                  connected, deltaTime, cursor, candidate, applied,
                  stateUpdates, batches, crashed >>
  /\ UNCHANGED QtVars

RECURSIVE UpdateNPCsFrom(_, _, _, _, _)
\* this.npcs.forEach(npc => { npc.update(dt); trackDelta(npc) })
UpdateNPCsFrom(ns, deltas, dt, draws, i) ==
  IF i > Len(ns) THEN [npcs |-> ns, deltaUpdates |-> deltas]
  ELSE LET r == trackDeltaNPC(
                  NPCUpdate(ns[i], dt, draws[i][1], draws[i][2]), deltas)
       IN  UpdateNPCsFrom(Put(ns, i, r.entity), r.deltaUpdates, dt, draws,
                          i + 1)

UpdateNPCs ==
  /\ At("npcs")
  /\ \E draws \in [1..Len(npcs) -> Angles \X AiIntervals] :
       LET r == UpdateNPCsFrom(npcs, deltaUpdates, deltaTime, draws, 1)
       IN  /\ npcs' = r.npcs
           /\ deltaUpdates' = r.deltaUpdates
           /\ lastReported' =
                RecordMoves(lastReported,
                            SubSeq(r.deltaUpdates, Len(deltaUpdates) + 1,
                                   Len(r.deltaUpdates)),
                            r.npcs)
  /\ pc' = "essences"
  /\ UNCHANGED << players, essences, tick, entityIdCounter, quadtree,
                  clients, connected, deltaTime, cursor, candidate, applied,
                  stateUpdates, batches, crashed >>
  /\ UNCHANGED QtVars

\* this.essences.forEach(essence => essence.update(dt))
UpdateEssences ==
  /\ At("essences")
  /\ essences' = [i \in 1..Len(essences) |->
                    EssenceUpdate(essences[i], deltaTime)]
  /\ pc' = "attraction"
  /\ cursor' = 1
  /\ candidate' = 1
  /\ UNCHANGED << players, npcs, tick, entityIdCounter, deltaUpdates,
                  quadtree, clients, connected, deltaTime, applied,
                  stateUpdates, batches, crashed >>
  /\ UNCHANGED << lastReported, qtInserted, qtSearch, calls >>

(***************************************************************************)
(* updateEssenceAttraction(): one step per candidate of one player.  The   *)
(* quadtree and the player's position do not change during the pass, so    *)
(* nearbyEssences of the player at turn is a function of the state.        *)
(***************************************************************************)
\* this.quadtree.search({ position - RANGE, RANGE * 2 })
nearbyEssences(p) ==
  search(quadtree,
         Rect(p.position.x - Tenths(ESSENCE_ATTRACTION_RANGE),
              p.position.y - Tenths(ESSENCE_ATTRACTION_RANGE),
              Tenths(ESSENCE_ATTRACTION_RANGE) * 2,
              Tenths(ESSENCE_ATTRACTION_RANGE) * 2))

\* the essence after `essence.velocity += (d / distance) * attractionForce`
\* with attractionForce = FORCE / (distance + 1)
Attract(p, e) ==
  LET dx == p.position.x - e.position.x
      dy == p.position.y - e.position.y
      distance == Hypot(dx, dy)
      k == Tenths(Tenths(ESSENCE_ATTRACTION_FORCE))
  IN  IF distance > 0
        THEN [e EXCEPT
               !.velocity =
                 Vec(e.velocity.x
                       + RoundDiv(dx * k, distance * (distance + Tenths(1))),
                     e.velocity.y
                       + RoundDiv(dy * k, distance * (distance + Tenths(1))))]
        ELSE e

\* distance < player.radius + essence.radius
Collects(p, e) ==
  LET dx == p.position.x - e.position.x
      dy == p.position.y - e.position.y
      r == p.radius + e.radius
  IN  dx * dx + dy * dy < r * r

InPass == At("attraction") /\ cursor <= Len(players)
HasCandidate == InPass /\ candidate <= Len(nearbyEssences(players[cursor]))
CandidateId == nearbyEssences(players[cursor])[candidate]

AttractionVars ==
  << npcs, tick, quadtree, clients, connected, pc, deltaTime, cursor,
     applied, stateUpdates, batches, crashed >>

\* if (!essence) return
AttractSkip ==
  /\ HasCandidate
  /\ ~HasId(essences, CandidateId)
  /\ candidate' = candidate + 1
  /\ UNCHANGED << players, essences, entityIdCounter, deltaUpdates >>
  /\ UNCHANGED AttractionVars
  /\ UNCHANGED << lastReported, qtInserted, qtSearch, calls >>

\* the candidate is pulled and stays
AttractPull ==
  /\ HasCandidate
  /\ HasId(essences, CandidateId)
  /\ LET i == IndexOf(essences, CandidateId, 1)
         p == players[cursor]
     IN  /\ ~Collects(p, essences[i])
         /\ essences' = Put(essences, i, Attract(p, essences[i]))
  /\ candidate' = candidate + 1
  /\ UNCHANGED << players, entityIdCounter, deltaUpdates >>
  /\ UNCHANGED AttractionVars
  /\ UNCHANGED << lastReported, qtInserted, qtSearch, calls >>

\* the collection branch without the spawnEssence call
CollectWithoutRespawn(w, pi, essenceId, point, rarity) ==
  LET p == addEssence(w.players[pi], essenceId)
  IN  [w EXCEPT
        !.players = Put(@, pi, p),
        !.essences = Delete(@, essenceId),
        !.deltaUpdates =
          Append(@, [type |-> "essenceCollected", playerId |-> p.id,
                     essenceId |-> essenceId,
                     essenceCount |-> Len(p.essences)])]

\* the collection branch without this.essences.delete(essence.id)
CollectWithoutDelete(w, pi, essenceId, point, rarity) ==
  LET p == addEssence(w.players[pi], essenceId)
      w1 == [w EXCEPT
              !.players = Put(@, pi, p),
              !.deltaUpdates =
                Append(@, [type |-> "essenceCollected", playerId |-> p.id,
                           essenceId |-> essenceId,
                           essenceCount |-> Len(p.essences)])]
  IN  spawnEssence(w1, point[1], point[2], rarity)

\* the collection branch of the forEach body, for player pi and essence ei
Collect(w, pi, essenceId, point, rarity) ==
  LET p == addEssence(w.players[pi], essenceId)
      w1 == [w EXCEPT
              !.players = Put(@, pi, p),
              !.essences = Delete(@, essenceId),
              !.deltaUpdates =
                Append(@, [type |-> "essenceCollected", playerId |-> p.id,
                           essenceId |-> essenceId,
                           essenceCount |-> Len(p.essences)])]
  IN  spawnEssence(w1, point[1], point[2], rarity)

\* the candidate is collected and replaced
AttractCollect ==
  /\ HasCandidate
  /\ HasId(essences, CandidateId)
  /\ Collects(players[cursor], Get(essences, CandidateId))
  /\ \E point \in SpawnPoints, rarity \in Rarities :
       SetWorld(Collect(World, cursor, CandidateId, point, rarity))
  /\ candidate' = candidate + 1
  /\ UNCHANGED AttractionVars
  /\ UNCHANGED << lastReported, qtInserted, qtSearch, calls >>

\* the next player of this.players.forEach
AttractNextPlayer ==
  /\ InPass
  /\ ~HasCandidate
  /\ cursor' = cursor + 1
  /\ candidate' = 1
  /\ UNCHANGED << players, essences, npcs, tick, entityIdCounter,
                  deltaUpdates, quadtree, clients, connected, pc, deltaTime,
                  applied, stateUpdates, batches, crashed >>
  /\ UNCHANGED << lastReported, qtInserted, qtSearch, calls >>

\* the pass is over
AttractDone ==
  /\ At("attraction")
  /\ cursor > Len(players)
  /\ pc' = "collisions"
  /\ cursor' = 0
  /\ candidate' = 0
  /\ UNCHANGED << players, essences, npcs, tick, entityIdCounter,
                  deltaUpdates, quadtree, clients, connected, deltaTime,
                  applied, stateUpdates, batches, crashed >>
  /\ UNCHANGED << lastReported, qtInserted, qtSearch, calls >>

(***************************************************************************)
(* handleCollisions(): players then NPCs, every pair i < j.                *)
(***************************************************************************)
\* checkAABBCollision(entity1, entity2): distance < radius1 + radius2
checkAABBCollision(e1, e2) ==
  LET dx == e2.position.x - e1.position.x
      dy == e2.position.y - e1.position.y
      r == e1.radius + e2.radius
  IN  dx * dx + dy * dy < r * r

\* resolveCollision without the division of the overlap by two
resolveCollisionByWholeOverlap(e1, e2) ==
  LET dx == e2.position.x - e1.position.x
      dy == e2.position.y - e1.position.y
      distance == ISqrt(10000 * (dx * dx + dy * dy))
      gap == 100 * (e1.radius + e2.radius) - distance
      separationX == RoundDiv(dx * gap, distance)
      separationY == RoundDiv(dy * gap, distance)
  IN  IF distance > 0
        THEN << [e1 EXCEPT !.position = Vec(e1.position.x - separationX,
                                            e1.position.y - separationY)],
                [e2 EXCEPT !.position = Vec(e2.position.x + separationX,
                                            e2.position.y + separationY)] >>
        ELSE << e1, e2 >>

\* resolveCollision that also parts two bodies whose centers coincide, along
\* the x axis
resolveCollisionPartingCoincident(e1, e2) ==
  LET dx == e2.position.x - e1.position.x
      dy == e2.position.y - e1.position.y
      distance == ISqrt(10000 * (dx * dx + dy * dy))
      gap == 100 * (e1.radius + e2.radius) - distance
      separationX == IF distance > 0 THEN RoundDiv(dx * gap, 2 * distance)
                     ELSE (e1.radius + e2.radius) \div 2
      separationY == IF distance > 0 THEN RoundDiv(dy * gap, 2 * distance)
                     ELSE 0
  IN  << [e1 EXCEPT !.position = Vec(e1.position.x - separationX,
                                     e1.position.y - separationY)],
         [e2 EXCEPT !.position = Vec(e2.position.x + separationX,
                                     e2.position.y + separationY)] >>

\* resolveCollision(entity1, entity2): the two entities after it
resolveCollision(e1, e2) ==
  LET dx == e2.position.x - e1.position.x
      dy == e2.position.y - e1.position.y
      \* Math.hypot(dx, dy) and the overlap, in hundredths of a tenth
      distance == ISqrt(10000 * (dx * dx + dy * dy))
      gap == 100 * (e1.radius + e2.radius) - distance
      separationX == RoundDiv(dx * gap, 2 * distance)
      separationY == RoundDiv(dy * gap, 2 * distance)
  IN  IF distance > 0
        THEN << [e1 EXCEPT !.position = Vec(e1.position.x - separationX,
                                            e1.position.y - separationY)],
                [e2 EXCEPT !.position = Vec(e2.position.x + separationX,
                                            e2.position.y + separationY)] >>
        ELSE << e1, e2 >>

RECURSIVE CollidePairs(_, _, _)
\* the two nested loops from (i, j) on, over the sequence all
CollidePairs(all, i, j) ==
  IF i > Len(all) THEN all
  ELSE IF j > Len(all) THEN CollidePairs(all, i + 1, i + 2)
  ELSE IF checkAABBCollision(all[i], all[j])
    THEN LET r == resolveCollision(all[i], all[j])
         IN  CollidePairs([all EXCEPT ![i] = r[1], ![j] = r[2]], i, j + 1)
    ELSE CollidePairs(all, i, j + 1)

handleCollisions ==
  /\ At("collisions")
  /\ LET all == CollidePairs(players \o npcs, 1, 2)
     IN  /\ players' = SubSeq(all, 1, Len(players))
         /\ npcs' = SubSeq(all, Len(players) + 1, Len(all))
  /\ pc' = "respawn"
  /\ UNCHANGED << essences, tick, entityIdCounter, deltaUpdates, quadtree,
                  clients, connected, deltaTime, cursor, candidate, applied,
                  stateUpdates, batches, crashed >>
  /\ UNCHANGED << lastReported, qtInserted, qtSearch, calls >>

\* checkEssenceRespawn(): the number of essences to spawn
needed == IF Len(essences) < MIN_ESSENCE_COUNT
            THEN MIN_ESSENCE_COUNT - Len(essences) ELSE 0

checkEssenceRespawn ==
  /\ At("respawn")
  /\ \E draws \in [1..needed -> SpawnPoints \X Rarities] :
       SetWorld(SpawnEssences(World, draws, 1))
  /\ pc' = "rebuild"
  /\ UNCHANGED << tick, quadtree, clients, connected, deltaTime, cursor,
                  candidate, applied, stateUpdates, batches, crashed >>
  /\ UNCHANGED << lastReported, qtInserted, qtSearch, calls >>

RECURSIVE InsertAll(_, _, _)
\* collection.forEach(e => this.quadtree.insert(e.id, e.getBounds()))
InsertAll(node, es, i) ==
  IF i > Len(es) THEN node
  ELSE InsertAll(insert(node, es[i].id, getBounds(es[i])).node, es, i + 1)

\* rebuildQuadtree()
rebuildQuadtree ==
  /\ At("rebuild")
  /\ quadtree' = InsertAll(InsertAll(InsertAll(clear(quadtree), players, 1),
                                     essences, 1), npcs, 1)
  /\ pc' = "broadcast"
  /\ UNCHANGED << players, essences, npcs, tick, entityIdCounter,
                  deltaUpdates, clients, connected, deltaTime, cursor,
                  candidate, applied, stateUpdates, batches, crashed >>
  /\ UNCHANGED << lastReported, qtInserted, qtSearch, calls >>

(***************************************************************************)
(* server.js: serverGameLoop, second part.                                 *)
(***************************************************************************)
\* update.entity && update.entity.position
HasEntityPosition(update) == "entity" \in DOMAIN update

\* update.entity.position, read through the reference the event holds
EntityPosition(update) == Get(players \o essences \o npcs, update.entity).position

\* the predicate of filterRelevantUpdates(player, updates, visibilityDistance)
Relevant(p, update) ==
  IF ~HasEntityPosition(update) THEN TRUE
  ELSE LET dx == EntityPosition(update).x - p.position.x
           dy == EntityPosition(update).y - p.position.y
           v == Tenths(VISIBILITY_DISTANCE)
       IN  dx * dx + dy * dy <= v * v

filterRelevantUpdates(p, updates) ==
  SelectSeq(updates, LAMBDA u : Relevant(p, u))

\* getDeltaUpdates()
getDeltaUpdates == deltaUpdates

RECURSIVE SendBatches(_, _)
\* clients.forEach(connection => sendBatch(...)) from connection i on
SendBatches(updates, i) ==
  IF i > Len(clients) THEN <<>>
  ELSE LET c == clients[i]
           relevantUpdates ==
             filterRelevantUpdates(Get(players, c.player), updates)
       IN  (IF c.player # 0 /\ Len(relevantUpdates) > 0
              THEN << [clientId |-> c.clientId, tick |-> tick,
                       updates |-> relevantUpdates] >>
              ELSE <<>>)
             \o SendBatches(updates, i + 1)

\* serverGameLoop after gameWorld.update(deltaTime)
Broadcast ==
  /\ At("broadcast")
  /\ stateUpdates' = getDeltaUpdates
  /\ batches' = SendBatches(getDeltaUpdates, 1)
  /\ pc' = "idle"
  /\ UNCHANGED << players, essences, npcs, tick, entityIdCounter,
                  deltaUpdates, quadtree, clients, connected, deltaTime,
                  cursor, candidate, applied, crashed >>
  /\ UNCHANGED << lastReported, qtInserted, qtSearch, calls >>

Next ==
  \/ Connect
  \/ \E c \in 1..Len(clients) : handlePlayerJoin(c)
  \/ \E c \in 1..Len(clients), sample \in InputSamples :
       handlePlayerInput(c, sample)
  \/ \E c \in 1..Len(clients) : handlePlayerDisconnect(c)
  \/ LoopInputs
  \/ UpdatePlayers
  \/ UpdateNPCs
  \/ UpdateEssences
  \/ AttractSkip
  \/ AttractPull
  \/ AttractCollect
  \/ AttractNextPlayer
  \/ AttractDone
  \/ handleCollisions
  \/ checkEssenceRespawn
  \/ rebuildQuadtree
  \/ Broadcast

Spec == Init /\ [][Next]_vars

(***************************************************************************)
(* The quadtree alone: any inserts, with ids 1, 2, ... in call order, and  *)
(* any searches, on the tree GameWorld constructs.                         *)
(***************************************************************************)
MaxInserts == 6

\* bounds of inserted entities: near the origin, across the line x = 1000
\* between the west and east quadrants, in the south-east, outside the
\* world, and outside but touching the east edge of the world
QtBoxes ==
  { Rect(100, 100, 60, 60), Rect(9970, 5000, 60, 60),
    Rect(15000, 15000, 160, 160), Rect(20100, 100, 60, 60),
    Rect(20000, 100, 60, 60) }

\* search regions: in the north-east quadrant, and at the origin
QtRegions == { Rect(10010, 4000, 4000, 4000), Rect(0, 0, 1000, 1000) }

WorldQuiet ==
  UNCHANGED << players, essences, npcs, tick, entityIdCounter, deltaUpdates,
               clients, connected, pc, deltaTime, cursor, candidate, applied,
               stateUpdates, batches, crashed, lastReported, calls >>

InitQT ==
  /\ players = <<>>
  /\ essences = <<>>
  /\ npcs = <<>>
  /\ tick = 0
  /\ entityIdCounter = 0
  /\ deltaUpdates = <<>>
  /\ quadtree = QtNode(Rect(0, 0, W, H), 0)
  /\ clients = <<>>
  /\ connected = 0
  /\ pc = "idle"
  /\ deltaTime = 0
  /\ cursor = 0
  /\ candidate = 0
  /\ applied = <<>>
  /\ stateUpdates = <<>>
  /\ batches = <<>>
  /\ crashed = FALSE
  /\ lastReported = << >>
  /\ qtInserted = <<>>
  /\ qtSearch = <<>>
  /\ calls = <<>>

\* quadtree.insert(id, bounds)
QtInsert(bounds) ==
  /\ Len(qtInserted) < MaxInserts
  /\ LET id == Len(qtInserted) + 1
         r == insert(quadtree, id, bounds)
     IN  /\ quadtree' = r.node
         /\ qtInserted' = Append(qtInserted, [id |-> id, bounds |-> bounds,
                                              ok |-> r.ok])
  /\ qtSearch' = <<>>
  /\ WorldQuiet

\* quadtree.search(region)
QtSearch(region) ==
  /\ qtSearch' = << [region |-> region, found |-> search(quadtree, region)] >>
  /\ UNCHANGED << quadtree, qtInserted >>
  /\ WorldQuiet

NextQT ==
  \/ \E bounds \in QtBoxes : QtInsert(bounds)
  \/ \E region \in QtRegions : QtSearch(region)

SpecQT == InitQT /\ [][NextQT]_vars

(***************************************************************************)
(* The entry points alone: the message handlers of server.js and the       *)
(* exported methods of GameWorld, called in any order between two loops,   *)
(* each call logged as [op, id, connection].                               *)
(***************************************************************************)
MaxCalls == 4

\* the ids a caller may pass: every id issued so far and one never issued
CallIds == 1..(entityIdCounter + 1)

\* the call is made between two loops and logged
Logged(op, id, connection) ==
  /\ Idle
  /\ Len(calls) < MaxCalls
  /\ calls' = Append(calls, [op |-> op, id |-> id, connection |-> connection])

\* a 'join' message on connection c
EntryJoin(c) ==
  /\ Logged("join", entityIdCounter + 1, clients[c].clientId)
  /\ Joined(c)
  /\ UNCHANGED << tick, quadtree, connected, crashed, qtInserted, qtSearch >>
  /\ UNCHANGED LoopVars

\* an 'input' message on connection c
EntryInput(c, sample) ==
  /\ Logged("input", clients[c].player, clients[c].clientId)
  /\ Buffered(c, sample)
  /\ UNCHANGED << players, essences, npcs, tick, entityIdCounter,
                  deltaUpdates, quadtree, connected, crashed, lastReported,
                  qtInserted, qtSearch >>
  /\ UNCHANGED LoopVars

\* the close of connection c
EntryClose(c) ==
  /\ Logged("close", clients[c].player, clients[c].clientId)
  /\ Closed(c)
  /\ UNCHANGED << tick, quadtree, connected, crashed, qtInserted, qtSearch >>
  /\ UNCHANGED LoopVars

\* gameWorld.removePlayer(id)
EntryRemovePlayer(id) ==
  /\ Logged("removePlayer", id, 0)
  /\ SetWorld(removePlayer(World, id))
  /\ UNCHANGED << tick, quadtree, clients, connected, crashed, lastReported,
                  qtInserted, qtSearch >>
  /\ UNCHANGED LoopVars

\* gameWorld.processPlayerInput(id, input); a throw reaches the caller
EntryProcessPlayerInput(id, sample) ==
  /\ Logged("processPlayerInput", id, 0)
  /\ LET r == processPlayerInput(players, id, sample)
     IN  /\ players' = r.players
         /\ crashed' = r.throws
  /\ UNCHANGED << essences, npcs, tick, entityIdCounter, deltaUpdates,
                  quadtree, clients, connected, lastReported, qtInserted,
                  qtSearch >>
  /\ UNCHANGED LoopVars

NextEntry ==
  \/ Connect
  \/ \E c \in 1..Len(clients) : EntryJoin(c)
  \/ \E c \in 1..Len(clients), sample \in InputSamples :
       EntryInput(c, sample)
  \/ \E c \in 1..Len(clients) : EntryClose(c)
  \/ \E id \in CallIds : EntryRemovePlayer(id)
  \/ \E id \in CallIds, sample \in InputSamples :
       EntryProcessPlayerInput(id, sample)

SpecEntry == Init /\ [][NextEntry]_vars

(***************************************************************************)
(* The standalone server of the repository (its second entry point): the   *)
(* module-level Maps clients and players, keyed by clientId, the message   *)
(* handler and the snapshot timer.  Here players[i].id is the clientId,    *)
(* tick counts the snapshots broadcast and stateUpdates is the last one.   *)
(***************************************************************************)
ALT_WORLD_SIZE == 4000
ALT_STEP == 5
ALT_SPEED == 150

\* Math.floor(Math.random() * WORLD_SIZE.width), the same for height
AltSpawnPoints == { <<0, 20000>>, <<20000, 20000>> }

AltQuiet ==
  UNCHANGED << essences, npcs, entityIdCounter, deltaUpdates, quadtree, pc,
               deltaTime, cursor, candidate, applied, batches, crashed,
               lastReported, qtInserted, qtSearch >>

InitAlt ==
  /\ players = <<>>
  /\ essences = <<>>
  /\ npcs = <<>>
  /\ tick = 0
  /\ entityIdCounter = 0
  /\ deltaUpdates = <<>>
  /\ quadtree = QtNode(Rect(0, 0, W, H), 0)
  /\ clients = <<>>
  /\ connected = 0
  /\ pc = "idle"
  /\ deltaTime = 0
  /\ cursor = 0
  /\ candidate = 0
  /\ applied = <<>>
  /\ stateUpdates = <<>>
  /\ batches = <<>>
  /\ crashed = FALSE
  /\ lastReported = << >>
  /\ qtInserted = <<>>
  /\ qtSearch = <<>>
  /\ calls = <<>>

\* wss.on('connection'): clients.set(clientId, { ws })
AltConnect ==
  /\ connected < MaxClients
  /\ connected' = connected + 1
  /\ clients' = Append(clients, [clientId |-> connected + 1, player |-> 0])
  /\ UNCHANGED << players, tick, stateUpdates, calls >>
  /\ AltQuiet

\* a message of the client of connection c is handled and logged
AltMessage(op, c) ==
  /\ Len(calls) < MaxCalls
  /\ calls' = Append(calls, [op |-> op, id |-> clients[c].clientId,
                             connection |-> clients[c].clientId])

\* players.set(clientId, playerState): a present key keeps its place
AltSet(ps, state) ==
  IF HasId(ps, state.id) THEN Put(ps, IndexOf(ps, state.id, 1), state)
  ELSE Append(ps, state)

\* handleClientMessage, case 'join'
AltJoin(c, spawn) ==
  /\ AltMessage("join", c)
  /\ players' = AltSet(players,
                       [id |-> clients[c].clientId,
                        position |-> Vec(spawn[1], spawn[2]),
                        velocity |-> Vec(0, 0), rotation |-> 0,
                        essenceCount |-> 0])
  /\ clients' = [clients EXCEPT ![c].player = clients[c].clientId]
  /\ UNCHANGED << connected, tick, stateUpdates >>
  /\ AltQuiet

\* the player after case 'input' has applied keys to it
AltApply(p, keys) ==
  LET dy0 == (IF Pressed(keys, "w", "ArrowUp") THEN -1 ELSE 0)
               + (IF Pressed(keys, "s", "ArrowDown") THEN 1 ELSE 0)
      dx0 == (IF Pressed(keys, "a", "ArrowLeft") THEN -1 ELSE 0)
               + (IF Pressed(keys, "d", "ArrowRight") THEN 1 ELSE 0)
      \* dx / mag and dy / mag in thousandths; mag is Math.hypot(dx, dy) || 1
      diagonal == dx0 # 0 /\ dy0 # 0
      dx == IF diagonal THEN 707 * dx0 ELSE 1000 * dx0
      dy == IF diagonal THEN 707 * dy0 ELSE 1000 * dy0
      size == Tenths(ALT_WORLD_SIZE)
  IN  [p EXCEPT
        !.position =
          Vec(Clamp(0, size,
                    p.position.x + RoundDiv(dx * Tenths(ALT_STEP), 1000)),
              Clamp(0, size,
                    p.position.y + RoundDiv(dy * Tenths(ALT_STEP), 1000))),
        !.velocity = Vec(RoundDiv(dx * Tenths(ALT_SPEED), 1000),
                         RoundDiv(dy * Tenths(ALT_SPEED), 1000)),
        !.rotation = Atan2(dy, dx)]

\* handleClientMessage, case 'input'
AltInput(c, keys) ==
  /\ AltMessage("input", c)
  /\ players' =
       IF HasId(players, clients[c].clientId)
         THEN AltSet(players, AltApply(Get(players, clients[c].clientId),
                                       keys))
         ELSE players
  /\ UNCHANGED << clients, connected, tick, stateUpdates >>
  /\ AltQuiet

\* ws.on('close'): clients.delete(clientId); players.delete(clientId)
AltClose(c) ==
  /\ AltMessage("close", c)
  /\ clients' = SelectSeq(clients,
                          LAMBDA k : k.clientId # clients[c].clientId)
  /\ players' = Delete(players, clients[c].clientId)
  /\ UNCHANGED << connected, tick, stateUpdates >>
  /\ AltQuiet

\* the setInterval callback: broadcast buildWorldSnapshot(null)
AltTick ==
  /\ tick < MaxTicks
  /\ Len(players) > 0
  /\ tick' = tick + 1
  /\ stateUpdates' = players
  /\ UNCHANGED << players, clients, connected, calls >>
  /\ AltQuiet

NextAlt ==
  \/ AltConnect
  \/ \E c \in 1..Len(clients), spawn \in AltSpawnPoints : AltJoin(c, spawn)
  \/ \E c \in 1..Len(clients), keys \in KeySets : AltInput(c, keys)
  \/ \E c \in 1..Len(clients) : AltClose(c)
  \/ AltTick

SpecAlt == InitAlt /\ [][NextAlt]_vars

(***************************************************************************)
(* Player alone.  Players of given sizes, on which updateVelocity,         *)
(* addEssence and update are called directly; the calls are logged.        *)
(***************************************************************************)
\* the essence counts the players start with; addEssence stays inside them
EssenceCounts == { 0, 1, 2, 50, 100, 101, 200 }

\* new Player(...) at the centre of the world, then n times addEssence
SizedPlayer(id, n) ==
  [NewPlayer(id, id, W \div 2, H \div 2) EXCEPT
     !.essences = [k \in 1..n |-> 1000 * id + k]]

PlayerQuiet ==
  UNCHANGED << essences, npcs, tick, entityIdCounter, deltaUpdates, quadtree,
               clients, connected, pc, deltaTime, cursor, candidate, applied,
               stateUpdates, batches, crashed, lastReported, qtInserted,
               qtSearch >>

InitPlayer ==
  /\ players \in { << SizedPlayer(1, m), SizedPlayer(2, n) >> :
                     m \in EssenceCounts, n \in EssenceCounts }
  /\ essences = <<>>
  /\ npcs = <<>>
  /\ tick = 0
  /\ entityIdCounter = 0
  /\ deltaUpdates = <<>>
  /\ quadtree = QtNode(Rect(0, 0, W, H), 0)
  /\ clients = <<>>
  /\ connected = 0
  /\ pc = "idle"
  /\ deltaTime = 0
  /\ cursor = 0
  /\ candidate = 0
  /\ applied = <<>>
  /\ stateUpdates = <<>>
  /\ batches = <<>>
  /\ crashed = FALSE
  /\ lastReported = << >>
  /\ qtInserted = <<>>
  /\ qtSearch = <<>>
  /\ calls = <<>>

\* player.updateVelocity(keys) on the i-th player
SoloUpdateVelocity(i, keys) ==
  /\ Logged("updateVelocity", players[i].id, 0)
  /\ players' = Put(players, i, updateVelocity(players[i], keys))
  /\ PlayerQuiet

\* player.addEssence(essence) on the i-th player
SoloAddEssence(i) ==
  /\ Len(players[i].essences) + 1 \in EssenceCounts
  /\ Logged("addEssence", players[i].id, 0)
  /\ players' = Put(players, i,
                     addEssence(players[i],
                                1000 * players[i].id
                                  + Len(players[i].essences) + 1))
  /\ PlayerQuiet

\* player.update(deltaTime) on every player, as players.forEach does
SoloUpdate(dt) ==
  /\ Logged("update", 0, 0)
  /\ players' = [i \in 1..Len(players) |-> PlayerUpdate(players[i], dt)]
  /\ PlayerQuiet

NextPlayer ==
  \/ \E i \in 1..Len(players), keys \in KeySets : SoloUpdateVelocity(i, keys)
  \/ \E i \in 1..Len(players) : SoloAddEssence(i)
  \/ \E dt \in DeltaTimes : SoloUpdate(dt)

SpecPlayer == InitPlayer /\ [][NextPlayer]_vars

(***************************************************************************)
(* Two players.  Two clients connect and join, at any time between two     *)
(* loops, and send nothing else; the game loop runs as in Spec.  Both      *)
(* players are created at the centre of the world.                         *)
(***************************************************************************)
MaxPair == 2

\* wss.on('connection'), for up to MaxPair connections
PairConnect ==
  /\ Idle
  /\ connected < MaxPair
  /\ connected' = connected + 1
  /\ clients' = Append(clients, [clientId |-> connected + 1, player |-> 0,
                                 inputBuffer |-> <<>>, isAlive |-> TRUE])
  /\ UNCHANGED << players, essences, npcs, tick, entityIdCounter,
                  deltaUpdates, quadtree, crashed >>
  /\ UNCHANGED LoopVars
  /\ UNCHANGED << lastReported, qtInserted, qtSearch, calls >>

\* the 'join' message of a connection that has not joined yet
PairJoin(c) ==
  /\ Idle
  /\ clients[c].player = 0
  /\ Joined(c)
  /\ UNCHANGED << tick, quadtree, connected, crashed >>
  /\ UNCHANGED LoopVars
  /\ UNCHANGED QtVars

NextPair ==
  \/ PairConnect
  \/ \E c \in 1..Len(clients) : PairJoin(c)
  \/ LoopInputs
  \/ UpdatePlayers
  \/ UpdateNPCs
  \/ UpdateEssences
  \/ AttractSkip
  \/ AttractPull
  \/ AttractCollect
  \/ AttractNextPlayer
  \/ AttractDone
  \/ handleCollisions
  \/ checkEssenceRespawn
  \/ rebuildQuadtree
  \/ Broadcast

SpecPair == Init /\ [][NextPair]_vars

(***************************************************************************)
(* server.js: the liveness sweep.  Clients connect, send messages and      *)
(* answer every ping of the server before the next sweep; batches holds    *)
(* the pings sent and not yet answered, calls the log of what happened.    *)
(***************************************************************************)
MaxSweepClients == 2
MaxSweepLog == 6

\* the message types a client sends here; 'pong' is its answer to a ping
SweepMessageTypes == { "ping", "ack", "pong" }

SweepQuiet ==
  UNCHANGED << players, essences, npcs, tick, entityIdCounter, deltaUpdates,
               quadtree, pc, deltaTime, cursor, candidate, applied,
               stateUpdates, crashed, lastReported, qtInserted, qtSearch >>

\* the log grows by the records recs
SweepLogged(recs) ==
  /\ Len(calls) < MaxSweepLog
  /\ calls' = calls \o recs

InitSweep ==
  /\ players = <<>>
  /\ essences = <<>>
  /\ npcs = <<>>
  /\ tick = 0
  /\ entityIdCounter = 0
  /\ deltaUpdates = <<>>
  /\ quadtree = QtNode(Rect(0, 0, W, H), 0)
  /\ clients = <<>>
  /\ connected = 0
  /\ pc = "idle"
  /\ deltaTime = 0
  /\ cursor = 0
  /\ candidate = 0
  /\ applied = <<>>
  /\ stateUpdates = <<>>
  /\ batches = <<>>
  /\ crashed = FALSE
  /\ lastReported = << >>
  /\ qtInserted = <<>>
  /\ qtSearch = <<>>
  /\ calls = <<>>

\* wss.on('connection'): new ClientConnection(ws, clientId), isAlive = true
SweepConnect ==
  /\ connected < MaxSweepClients
  /\ SweepLogged(<< [op |-> "connect", id |-> 0,
                     connection |-> connected + 1] >>)
  /\ connected' = connected + 1
  /\ clients' = Append(clients, [clientId |-> connected + 1, player |-> 0,
                                 inputBuffer |-> <<>>, isAlive |-> TRUE])
  /\ UNCHANGED batches
  /\ SweepQuiet

\* ws.on('message') for a 'ping', an 'ack' or a 'pong' packet: handlePing,
\* lastAckTime = now, or the default branch; none assigns isAlive.  A 'pong'
\* is sent by a client that has a ping to answer
SweepMessage(c, type) ==
  /\ type = "pong" =>
       \E k \in 1..Len(batches) : batches[k].clientId = clients[c].clientId
  /\ SweepLogged(<< [op |-> type, id |-> 0,
                     connection |-> clients[c].clientId] >>)
  /\ batches' = IF type = "pong"
                  THEN SelectSeq(batches,
                                 LAMBDA b : b.clientId # clients[c].clientId)
                  ELSE batches
  /\ UNCHANGED << clients, connected >>
  /\ SweepQuiet

\* the setInterval callback of 30 s: a connection with isAlive false is
\* terminated, and its 'close' handler deletes it from clients; the others
\* get isAlive = false and a ping.  Every earlier ping has been answered
Sweep ==
  /\ batches = <<>>
  /\ LET dead == SelectSeq(clients, LAMBDA k : ~k.isAlive)
         live == SelectSeq(clients, LAMBDA k : k.isAlive)
     IN  /\ SweepLogged(
              << [op |-> "sweep", id |-> 0, connection |-> 0] >>
                \o [k \in 1..Len(dead) |->
                      [op |-> "terminate", id |-> 0,
                       connection |-> dead[k].clientId]])
         /\ clients' = [k \in 1..Len(live) |->
                          [live[k] EXCEPT !.isAlive = FALSE]]
         /\ batches' = [k \in 1..Len(live) |->
                          [clientId |-> live[k].clientId, type |-> "ping"]]
  /\ UNCHANGED connected
  /\ SweepQuiet

NextSweep ==
  \/ SweepConnect
  \/ \E c \in 1..Len(clients), type \in SweepMessageTypes :
       SweepMessage(c, type)
  \/ Sweep

SpecSweep == InitSweep /\ [][NextSweep]_vars

(***************************************************************************)
(* Properties                                                              *)
(***************************************************************************)
\* GameWorld.update has returned at least once and is not running
TickCompleted == tick > 0 /\ pc \in {"broadcast", "idle"}

EventsOf(deltas, type) ==
  { k \in 1..Len(deltas) : deltas[k].type = type }

\* the squared distance of two positions
Dist2(a, b) == (a.x - b.x) * (a.x - b.x) + (a.y - b.y) * (a.y - b.y)

\* C1: after every completed tick every player has
\* radius = baseRadius + (number of collected essences) * multiplier, also
\* when the player collected during the tick.
C1_RadiusFollowsEssenceCount ==
  TickCompleted =>
    \A i \in 1..Len(players) :
      players[i].radius =
        Tenths(PLAYER_BASE_RADIUS)
          + Len(players[i].essences) * ESSENCE_RADIUS_MULTIPLIER_TENTHS

\* the candidate at turn is within collection distance of the player at turn
CollectionDue ==
  /\ HasCandidate
  /\ HasId(essences, CandidateId)
  /\ Collects(players[cursor], Get(essences, CandidateId))

\* C2: a collection of the attraction pass adds exactly one essence to the
\* player's collected list, removes the collected id from the essence
\* collection and spawns exactly one replacement, so the number of essences
\* is the same right after the collection as right before it, and no step of
\* the pass changes the number of essences.
C2_CollectionKeepsEssenceCount ==
  [][ /\ CollectionDue =>
           /\ players'[cursor].essences
                = Append(players[cursor].essences, CandidateId)
           /\ \A i \in 1..Len(players) :
                i # cursor => players'[i].essences = players[i].essences
           /\ ~HasId(essences', CandidateId)
           /\ Len(essences') = Len(essences)
           /\ Cardinality({ essences'[i].id : i \in 1..Len(essences') }
                            \ { essences[i].id : i \in 1..Len(essences) }) = 1
      /\ pc = "attraction" => Len(essences') = Len(essences) ]_vars

\* a collection has just been made in the running attraction pass
C2_Witness ==
  /\ pc = "attraction"
  /\ EventsOf(deltaUpdates, "essenceCollected") # {}
  /\ \E i \in 1..Len(players) : Len(players[i].essences) > 0

\* C3: at the end of every tick the number of essences is at least
\* MIN_ESSENCE_COUNT.
C3_EssenceFloor == TickCompleted => Len(essences) >= MIN_ESSENCE_COUNT

\* a tick has completed in which a player collected an essence
C3_Witness ==
  /\ TickCompleted
  /\ pc = "broadcast"
  /\ EventsOf(deltaUpdates, "essenceCollected") # {}
  /\ Len(essences) >= MIN_ESSENCE_COUNT

IsInjective(seq) ==
  \A i, j \in 1..Len(seq) : seq[i] = seq[j] => i = j

RECURSIVE InsertEntries(_, _, _)
\* insert the calls es[i], es[i - 1], ..., es[1] into node
InsertEntries(node, es, i) ==
  IF i = 0 THEN node
  ELSE InsertEntries(insert(node, es[i].id, es[i].bounds).node, es, i - 1)

\* C4: after any inserts, search(region) returns exactly the inserted ids
\* whose own bounds intersect region, each once, and the same set whatever
\* the order of the inserts.
C4_SearchIsExact ==
  \A k \in 1..Len(qtSearch) :
    LET region == qtSearch[k].region
        found == qtSearch[k].found
        reversed == InsertEntries(QtNode(Rect(0, 0, W, H), 0), qtInserted,
                                  Len(qtInserted))
    IN  /\ Range(found)
             = { qtInserted[i].id : i \in
                   { j \in 1..Len(qtInserted) :
                       /\ qtInserted[j].ok
                       /\ intersects(region, qtInserted[j].bounds) } }
        /\ IsInjective(found)
        /\ Range(search(reversed, region)) = Range(found)

\* C5: after every completed tick every player lies within
\* [radius, WORLD_SIZE - radius] in x and in y, for its current radius.
C5_PlayersInsideWorld ==
  TickCompleted =>
    \A i \in 1..Len(players) :
      LET p == players[i]
      IN  /\ p.radius <= p.position.x /\ p.position.x <= W - p.radius
          /\ p.radius <= p.position.y /\ p.position.y <= H - p.radius

\* C6: between ticks every essence lies in [0, width] x [0, height].
C6_EssencesInsideWorld ==
  pc = "idle" =>
    \A i \in 1..Len(essences) :
      /\ 0 <= essences[i].position.x /\ essences[i].position.x <= W
      /\ 0 <= essences[i].position.y /\ essences[i].position.y <= H

\* an essence carrying velocity was stopped at the west edge by the clamp
C6_Witness ==
  /\ pc = "idle"
  /\ \E i \in 1..Len(essences) :
       essences[i].position.x = 0 /\ essences[i].velocity.x < 0

\* C7: NPC.update wraps: a coordinate that integration moves below -radius
\* becomes size + radius, one it moves above size + radius becomes -radius,
\* any other is kept, so right after NPC.update the NPC lies in
\* [-radius, width + radius] x [-radius, height + radius].
C7_NPCWraps ==
  [][ (pc = "npcs" /\ pc' = "essences") =>
        \A i \in 1..Len(npcs) :
          LET r == npcs[i].radius
              moved == Integrate(npcs[i].position, npcs'[i].velocity,
                                 deltaTime)
              after == npcs'[i].position
          IN  /\ after.x = (IF moved.x < -r THEN W + r
                            ELSE IF moved.x > W + r THEN -r ELSE moved.x)
              /\ after.y = (IF moved.y < -r THEN H + r
                            ELSE IF moved.y > H + r THEN -r ELSE moved.y)
              /\ -r <= after.x /\ after.x <= W + r
              /\ -r <= after.y /\ after.y <= H + r ]_vars

\* NPC.update has just put an NPC from beyond the east edge to the west one
\* and from beyond the north edge to the south one
C7_Witness ==
  /\ pc = "essences"
  /\ \E i \in 1..Len(npcs) :
       /\ npcs[i].position.x = -npcs[i].radius
       /\ npcs[i].position.y = H + npcs[i].radius
       /\ npcs[i].velocity.x > 0

\* C8: when trackDelta runs for a player or an NPC whose displacement from
\* its last reported position exceeds POSITION_UPDATE_THRESHOLD, an
\* entityMoved event for it is recorded in the tick's change set and its
\* reference position becomes its current position.
C8_SignificantMoveIsReported ==
  [][ /\ (pc = "players" /\ pc' = "npcs") =>
           \A i \in 1..Len(players) :
             Dist2(players'[i].position, lastReported[players[i].id])
                 > Tenths(POSITION_UPDATE_THRESHOLD)
                     * Tenths(POSITION_UPDATE_THRESHOLD)
               => /\ \E k \in EventsOf(deltaUpdates', "entityMoved") :
                       deltaUpdates'[k].entity = players[i].id
                  /\ lastReported'[players[i].id] = players'[i].position
      /\ (pc = "npcs" /\ pc' = "essences") =>
           \A i \in 1..Len(npcs) :
             Dist2(npcs'[i].position, lastReported[npcs[i].id])
                 > Tenths(POSITION_UPDATE_THRESHOLD)
                     * Tenths(POSITION_UPDATE_THRESHOLD)
               => /\ \E k \in EventsOf(deltaUpdates', "entityMoved") :
                       deltaUpdates'[k].entity = npcs[i].id
                  /\ lastReported'[npcs[i].id] = npcs'[i].position ]_vars

\* C9: every event getDeltaUpdates returns to the game loop carries the
\* position of its subject entity.
C9_EveryEventHasPosition ==
  \A k \in 1..Len(stateUpdates) : HasEntityPosition(stateUpdates[k])

\* the buffer of the connection with this clientId in cs, <<>> if it is gone
BufferOf(cs, clientId) ==
  IF \E i \in 1..Len(cs) : cs[i].clientId = clientId
    THEN (CHOOSE c \in Range(cs) : c.clientId = clientId).inputBuffer
    ELSE <<>>

\* C10: a game-loop iteration removes from each joined connection's buffer
\* at most one sample, the oldest, and applies it to that connection's
\* player; a received sample goes to the end of the buffer, so samples are
\* applied in the order received.
C10_OldestSampleFirst ==
  [][ /\ (pc = "idle" /\ (pc' = "players" \/ crashed')) =>
           \A i \in 1..Len(clients) :
             LET c == clients[i]
                 mine == SelectSeq(applied',
                                   LAMBDA a : a.clientId = c.clientId)
                 after == BufferOf(clients', c.clientId)
             IN  /\ Len(mine) <= 1
                 /\ after \in {c.inputBuffer} \cup
                      (IF c.inputBuffer # <<>> THEN {Tail(c.inputBuffer)}
                       ELSE {})
                 /\ Len(mine) = 1 =>
                      /\ c.inputBuffer # <<>>
                      /\ mine[1].input = Head(c.inputBuffer)
                      /\ mine[1].playerId = c.player
                      /\ after = Tail(c.inputBuffer)
                 /\ (~crashed' /\ c.player # 0 /\ c.inputBuffer # <<>>)
                      => Len(mine) = 1
                 /\ (c.player = 0 \/ c.inputBuffer = <<>>)
                      => after = c.inputBuffer /\ Len(mine) = 0
      /\ (pc = "idle" /\ pc' = "idle" /\ ~crashed') =>
           \A i \in 1..Len(clients') :
             LET before == BufferOf(clients, clients'[i].clientId)
                 after == clients'[i].inputBuffer
             IN  \/ after = before
                 \/ Len(after) = Len(before) + 1
                      /\ SubSeq(after, 1, Len(before)) = before ]_vars

\* the loop took the older of two different buffered samples, the younger
\* one is still buffered
C10_Witness ==
  /\ pc = "players"
  /\ Len(applied) = 1
  /\ \E i \in 1..Len(clients) :
       /\ clients[i].clientId = applied[1].clientId
       /\ Len(clients[i].inputBuffer) = 1
       /\ clients[i].inputBuffer[1] # applied[1].input

\* the step makes a logged call of op
Called(op) ==
  /\ Len(calls') = Len(calls) + 1
  /\ calls'[Len(calls')].op = op

\* the id argument of the call the step makes
CalledId == calls'[Len(calls')].id

\* C12: removePlayer(id) with an id that is not in the player collection
\* raises nothing, records no playerRemoved event and leaves the three
\* collections, the id counter and the change buffer as they were; with a
\* present id it deletes exactly that player and records exactly one
\* playerRemoved event.  The close of a joined connection is a removePlayer
\* call for the connection's player.
C12_RemovePlayerAbsentIsNoOp ==
  [][ (Called("removePlayer") \/ (Called("close") /\ CalledId # 0)) =>
        /\ ~crashed'
        /\ UNCHANGED << essences, npcs, entityIdCounter >>
        /\ IF HasId(players, CalledId)
             THEN /\ Len(players') = Len(players) - 1
                  /\ ~HasId(players', CalledId)
                  /\ \A i \in 1..Len(players) :
                       players[i].id # CalledId
                         => \E j \in 1..Len(players') :
                              players'[j] = players[i]
                  /\ Len(deltaUpdates') = Len(deltaUpdates) + 1
                  /\ SubSeq(deltaUpdates', 1, Len(deltaUpdates))
                       = deltaUpdates
                  /\ deltaUpdates'[Len(deltaUpdates')].type = "playerRemoved"
                  /\ deltaUpdates'[Len(deltaUpdates')].entityId = CalledId
             ELSE UNCHANGED << players, deltaUpdates >> ]_vars

\* a player was created by a join and removed, and removePlayer has been
\* called again with its id
C12_Witness ==
  /\ Len(calls) >= 3
  /\ calls[Len(calls)].op = "removePlayer"
  /\ ~crashed
  /\ \E j, k \in 1..(Len(calls) - 1) :
       /\ j < k
       /\ calls[j].op = "join"
       /\ calls[k].op = "removePlayer"
       /\ calls[j].id = calls[Len(calls)].id
       /\ calls[k].id = calls[Len(calls)].id

\* C13: processPlayerInput with an id that is not in the player collection,
\* and an 'input' message on a connection that has not joined, change no
\* entity and no buffer and throw nothing, whatever the sample.
C13_InputForUnknownPlayerIsNoOp ==
  [][ (\/ Called("processPlayerInput") /\ ~HasId(players, CalledId)
       \/ Called("input") /\ CalledId = 0) =>
        /\ ~crashed'
        /\ UNCHANGED << players, essences, npcs, tick, entityIdCounter,
                        deltaUpdates, quadtree, clients >> ]_vars

\* an 'input' message has arrived on a connection that never joined and
\* processPlayerInput has been called with the id of no player, while a
\* player exists, and nothing was thrown
C13_Witness ==
  /\ Len(calls) >= 3
  /\ ~crashed
  /\ Len(players) > 0
  /\ calls[Len(calls)].op = "processPlayerInput"
  /\ ~HasId(players, calls[Len(calls)].id)
  /\ \E k \in 1..Len(calls) : calls[k].op = "input" /\ calls[k].id = 0

\* C14: once the close of a connection has been handled no player created
\* through that connection remains: every player in the collection belongs
\* to a connection that is still open.
C14_PlayersDestroyedOnDisconnect ==
  \A i \in 1..Len(players) :
    \E c \in 1..Len(clients) : clients[c].clientId = players[i].clientId

\* the players with this id in ps, as a set of their kinematic states
Kinematics(ps, id) ==
  { [position |-> ps[i].position, velocity |-> ps[i].velocity,
     rotation |-> ps[i].rotation] : i \in { k \in 1..Len(ps) : ps[k].id = id } }

\* C11: in every server of the repository the receipt of an 'input' message
\* only buffers the sample: no step outside the game loop changes the
\* position, velocity or rotation of a player, and a loop iteration applies
\* at most one sample to a player, however many messages came before it.
C11_InputIsOnlyBuffered ==
  [][ /\ (\/ Called("input")
          \/ /\ calls' = calls
             /\ pc = "idle" /\ pc' = "idle" /\ tick' = tick /\ ~crashed') =>
           \A i \in 1..Len(players) :
             \/ Kinematics(players', players[i].id) = {}
             \/ Kinematics(players', players[i].id)
                  = Kinematics(players, players[i].id)
      /\ \A i \in 1..Len(players) :
           Len(SelectSeq(applied',
                         LAMBDA a : a.playerId = players[i].id)) <= 1 ]_vars

\* C15: no input sample a joined client can send is fatal to the tick: the
\* game-loop iteration that shifts it completes without throwing, whether
\* or not the payload carries an input object, so no iteration ever ends in
\* an uncaught exception.
C15_NoSampleIsFatal == ~crashed

\* the bodies a and b overlap with distinct centers
Overlapping(a, b) ==
  /\ a.position # b.position
  /\ Dist2(a.position, b.position)
       < (a.radius + b.radius) * (a.radius + b.radius)

\* C16: when handleCollisions resolves the one overlapping pair of bodies
\* (distinct centers, no third body moved), each of the two is moved by the
\* same amount in opposite directions along the line through the centers:
\* the midpoint is unchanged and the distance becomes the sum of the radii
\* (up to the rounding of the fixed-point positions, 2 tenths at most).
C16_OverlapIsSeparatedSymmetrically ==
  [][ (pc = "collisions" /\ pc' = "respawn") =>
        LET all == players \o npcs
            after == players' \o npcs'
        IN  \A i, j \in 1..Len(all) :
              ( /\ i < j
                /\ Overlapping(all[i], all[j])
                /\ \A k, l \in 1..Len(all) :
                     (k < l /\ Overlapping(all[k], all[l]))
                       => (k = i /\ l = j)
                /\ \A k \in 1..Len(all) \ {i, j} : after[k] = all[k] )
              => LET a == all[i].position
                     b == all[j].position
                     a2 == after[i].position
                     b2 == after[j].position
                     sum == all[i].radius + all[j].radius
                     dx == b.x - a.x
                     dy == b.y - a.y
                     sx == b2.x - b.x
                     sy == b2.y - b.y
                 IN  /\ after[i] = [all[i] EXCEPT !.position = a2]
                     /\ after[j] = [all[j] EXCEPT !.position = b2]
                     /\ a2.x + b2.x = a.x + b.x
                     /\ a2.y + b2.y = a.y + b.y
                     /\ sx * dx + sy * dy > 0
                     /\ 2 * Abs(sx * dy - sy * dx) <= Abs(dx) + Abs(dy)
                     /\ Dist2(a2, b2) >= (sum - 2) * (sum - 2)
                     /\ Dist2(a2, b2) <= (sum + 2) * (sum + 2) ]_vars

\* handleCollisions has just pushed a player and an NPC apart to the sum of
\* their radii, along a line that is not an axis
C16_Witness ==
  /\ pc = "respawn"
  /\ \E i \in 1..Len(players), j \in 1..Len(npcs) :
       LET p == players[i]
           n == npcs[j]
       IN  /\ p.position.x # W \div 2
           /\ p.position.y # H \div 2
           /\ Dist2(p.position, n.position)
                >= (p.radius + n.radius - 2) * (p.radius + n.radius - 2)
           /\ Dist2(p.position, n.position)
                <= (p.radius + n.radius + 2) * (p.radius + n.radius + 2)

LiveIds(w) ==
  { w.players[i].id : i \in 1..Len(w.players) }
    \cup { w.essences[i].id : i \in 1..Len(w.essences) }
    \cup { w.npcs[i].id : i \in 1..Len(w.npcs) }

\* the ids of the essences the players of world w have collected
CollectedIds(w) ==
  UNION { Range(w.players[i].essences) : i \in 1..Len(w.players) }

\* no id of world w is held by two entities, in the collections or collected
UniqueIds(w) ==
  /\ Cardinality(LiveIds(w))
       = Len(w.players) + Len(w.essences) + Len(w.npcs)
  /\ LiveIds(w) \cap CollectedIds(w) = {}
  /\ \A i \in 1..Len(w.players) : IsInjective(w.players[i].essences)
  /\ \A i, j \in 1..Len(w.players) :
       i # j => Range(w.players[i].essences)
                  \cap Range(w.players[j].essences) = {}
  /\ \A id \in LiveIds(w) \cup CollectedIds(w) : id <= w.entityIdCounter

\* the world after the step
WorldAfter ==
  [players |-> players', essences |-> essences', npcs |-> npcs',
   entityIdCounter |-> entityIdCounter', deltaUpdates |-> deltaUpdates']

\* C18: entity ids are unique and never reused: the ids a step gives to new
\* entities are exactly the numbers after the greatest id issued so far, so
\* they differ from every id issued before, also from the ids of collected
\* essences and removed players, and at all times no two entities of the
\* three collections or of the collected lists share an id.
C18_IdsUniqueNeverReused ==
  [][ /\ UniqueIds(World)
      /\ UniqueIds(WorldAfter)
      /\ entityIdCounter' >= entityIdCounter
      /\ LiveIds(WorldAfter) \ LiveIds(World)
           = (entityIdCounter + 1)..entityIdCounter' ]_vars

\* an essence was collected, which freed its id in the essence collection,
\* and entities were created afterwards
C18_Witness ==
  /\ \E i \in 1..Len(players) :
       \E k \in 1..Len(players[i].essences) :
         /\ players[i].essences[k] < entityIdCounter
         /\ \E id \in LiveIds(World) : id > players[i].essences[k]
  /\ \E k \in 1..Len(deltaUpdates) : deltaUpdates[k].type = "essenceAdded"

\* sequence a is the beginning of sequence b
IsPrefix(a, b) ==
  /\ Len(a) <= Len(b)
  /\ SubSeq(b, 1, Len(a)) = a

\* C19: the change buffer is per tick. The step that starts update() leaves
\* in the buffer nothing recorded before it: only the entityMoved events of
\* this tick's player updates, at most one per player and in player order.
\* Every later step of the same update() only appends to the buffer, and
\* getDeltaUpdates(), called when update() has returned, hands out the buffer
\* as it is: the events of this tick, in the order they were recorded.
C19_BufferIsPerTick ==
  [][ /\ tick' # tick =>
           /\ tick' = tick + 1
           /\ Len(deltaUpdates') <= Len(players)
           /\ \A k \in 1..Len(deltaUpdates') :
                /\ deltaUpdates'[k].type = "entityMoved"
                /\ \E i \in 1..Len(players) :
                     deltaUpdates'[k].entity = players[i].id
           /\ \A k, l \in 1..Len(deltaUpdates') :
                k < l => \E i, j \in 1..Len(players) :
                           /\ i < j
                           /\ deltaUpdates'[k].entity = players[i].id
                           /\ deltaUpdates'[l].entity = players[j].id
      /\ (tick' = tick /\ pc \notin {"idle", "players"}) =>
           IsPrefix(deltaUpdates, deltaUpdates')
      /\ (pc = "broadcast" /\ pc' = "idle") =>
           /\ stateUpdates' = deltaUpdates
           /\ deltaUpdates' = deltaUpdates ]_vars

\* the second or a later tick handed out a buffer with an event recorded
\* after its start, while the world had recorded events before that tick
C19_Witness ==
  /\ tick >= 2
  /\ pc = "idle"
  /\ \E k \in 1..Len(stateUpdates) : stateUpdates[k].type = "essenceCollected"
  /\ \E k \in 1..Len(stateUpdates) : stateUpdates[k].type = "entityMoved"
  /\ \A k \in 1..Len(stateUpdates) : stateUpdates[k].type # "playerAdded"

\* C20: after every Player.update the player's maxVelocity is at least half
\* of PLAYER_MAX_VELOCITY, and of two players updated together the one with
\* no more essences has no smaller maxVelocity, counts above 100 included.
C20_MaxVelocityFloorAndMonotone ==
  [][ Called("update") =>
        /\ \A i \in 1..Len(players') :
             2 * players'[i].maxVelocity >= Tenths(PLAYER_MAX_VELOCITY)
        /\ \A i, j \in 1..Len(players') :
             Len(players'[i].essences) <= Len(players'[j].essences) =>
               players'[i].maxVelocity >= players'[j].maxVelocity ]_vars

\* the phases of one serverGameLoop call, in the order the program names them
PhaseOrder ==
  << "idle", "players", "npcs", "essences", "attraction", "collisions",
     "respawn", "rebuild", "broadcast" >>

\* the place of pc value p in PhaseOrder
PhaseIndex(p) == CHOOSE k \in 1..Len(PhaseOrder) : PhaseOrder[k] = p

\* the step runs movement-delta tracking for some player with effect: it
\* resets the player's reference position
Tracks ==
  \E i \in 1..Len(players) :
    /\ HasId(players', players[i].id)
    /\ Get(players', players[i].id).lastSignificantPosition
         # players[i].lastSignificantPosition

\* C21: a tick runs its phases in the order input application, per-kind
\* update of players, NPCs and essences, movement-delta tracking, attraction
\* and collection, collision resolution, population maintenance, spatial
\* rebuild, each phase over before the next begins: the loop only goes from
\* one phase to the next one, and tracking acts only when the per-kind
\* update of every kind, essences included, is over.
C21_PhasesInOrder ==
  [][ /\ \/ pc' = pc
         \/ PhaseIndex(pc') = PhaseIndex(pc) + 1
         \/ pc = "broadcast" /\ pc' = "idle"
      /\ Tracks => PhaseIndex(pc) > PhaseIndex("essences") ]_vars

\* at the end of a tick the ids stored in the quadtree
IndexedIds == Range(StoredIds(quadtree))

\* C22: when update() returns, the rebuilt quadtree stores exactly the ids
\* of the players, essences and NPCs of the three collections.
C22_IndexHoldsEveryEntity ==
  pc = "broadcast" => IndexedIds = LiveIds(World)

\* rectangles a and b share at least one point, a common edge included
Touches(a, b) ==
  /\ a.x <= b.x + b.width
  /\ b.x <= a.x + a.width
  /\ a.y <= b.y + b.height
  /\ b.y <= a.y + a.height

\* the number of places of sequence s that hold v
Count(s, v) == Cardinality({ k \in 1..Len(s) : s[k] = v })

\* C23: insert(id, bounds) returns true exactly when bounds and the root
\* region share a point, a common edge included; after a true insert the id
\* is stored in exactly one node of the tree, after a false insert the tree
\* is as before, and every id inserted earlier stays stored exactly once.
C23_InsertStoresOnce ==
  [][ Len(qtInserted') = Len(qtInserted) + 1 =>
        LET call == qtInserted'[Len(qtInserted')]
        IN  /\ call.ok = Touches(Rect(0, 0, W, H), call.bounds)
            /\ call.ok => Count(StoredIds(quadtree'), call.id) = 1
            /\ ~call.ok => quadtree' = quadtree
            /\ \A k \in 1..Len(qtInserted) :
                 Count(StoredIds(quadtree'), qtInserted[k].id)
                   = IF qtInserted[k].ok THEN 1 ELSE 0 ]_vars

\* the root has been subdivided, a child holds a box that lies across the
\* line between two siblings, a box that only touches the east edge of the
\* world was accepted and a box outside the world was refused
C23_Witness ==
  /\ quadtree.divided
  /\ \E c \in 1..Len(quadtree.children) :
       \E k \in 1..Len(quadtree.children[c].entities) :
         LET b == quadtree.children[c].entities[k].bounds
         IN  b.x < W \div 2 /\ b.x + b.width > W \div 2
  /\ \E k \in 1..Len(qtInserted) :
       qtInserted[k].ok /\ qtInserted[k].bounds.x = W
  /\ \E k \in 1..Len(qtInserted) : ~qtInserted[k].ok

\* the events the step records
Recorded ==
  IF tick' # tick THEN deltaUpdates'
  ELSE SubSeq(deltaUpdates', Len(deltaUpdates) + 1, Len(deltaUpdates'))

\* the step records an entityMoved event for the entity id
RecordsMove(id) ==
  \E k \in 1..Len(Recorded) :
    Recorded[k].type = "entityMoved" /\ Recorded[k].entity = id

\* C24: an entityMoved event is recorded for an entity only if, when it is
\* tracked, the entity is farther than POSITION_UPDATE_THRESHOLD from its
\* reference position; the reference position of an entity changes only in a
\* step that records such an event for it; and no entityMoved event is ever
\* recorded for an essence.
C24_OnlySignificantMovesReported ==
  [][ /\ \A k \in 1..Len(Recorded) :
           Recorded[k].type = "entityMoved" =>
             /\ ~HasId(essences, Recorded[k].entity)
             /\ ~HasId(essences', Recorded[k].entity)
             /\ HasId(players, Recorded[k].entity)
             /\ Dist2(Get(players', Recorded[k].entity).position,
                      Get(players, Recorded[k].entity).lastSignificantPosition)
                  > Tenths(POSITION_UPDATE_THRESHOLD)
                      * Tenths(POSITION_UPDATE_THRESHOLD)
      /\ \A i \in 1..Len(players) :
           (/\ HasId(players', players[i].id)
            /\ Get(players', players[i].id).lastSignificantPosition
                 # players[i].lastSignificantPosition)
             => RecordsMove(players[i].id) ]_vars

\* the players have just been updated and tracked: one of them has moved
\* away from its reference position, by no more than the threshold, and no
\* event was recorded
C24_Witness ==
  /\ pc = "npcs"
  /\ deltaUpdates = <<>>
  /\ \E i \in 1..Len(players) :
       /\ players[i].velocity # Vec(0, 0)
       /\ players[i].position # players[i].lastSignificantPosition

\* the bounds the quadtree holds for the entity id
RECURSIVE IndexedBounds(_, _)
IndexedBounds(node, id) ==
  { node.entities[k].bounds :
      k \in { j \in 1..Len(node.entities) : node.entities[j].id = id } }
    \cup UNION { IndexedBounds(node.children[c], id) :
                  c \in 1..Len(node.children) }

\* the square of side 2 * ESSENCE_ATTRACTION_RANGE centred on player p
AttractionSquare(p) ==
  Rect(p.position.x - Tenths(ESSENCE_ATTRACTION_RANGE),
       p.position.y - Tenths(ESSENCE_ATTRACTION_RANGE),
       2 * Tenths(ESSENCE_ATTRACTION_RANGE),
       2 * Tenths(ESSENCE_ATTRACTION_RANGE))

\* C26: in the attraction pass the player at turn changes the velocity of,
\* or collects, only essences whose indexed bounds share a point with the
\* square of side 2 * ESSENCE_ATTRACTION_RANGE centred on the player.
C26_AttractionStaysInRange ==
  [][ (pc = "attraction" /\ pc' = "attraction") =>
        \A i \in 1..Len(essences) :
          (\/ ~HasId(essences', essences[i].id)
           \/ Get(essences', essences[i].id).velocity # essences[i].velocity)
            => \E b \in IndexedBounds(quadtree, essences[i].id) :
                 Touches(AttractionSquare(players[cursor]), b) ]_vars

\* C27: every playerAdded and playerRemoved event reaches a getDeltaUpdates
\* read of the game loop before the change buffer is emptied: when update()
\* empties the buffer, each such event in it is part of what the last read
\* returned.
C27_PlayerEventsAreRead ==
  [][ tick' # tick =>
        \A k \in 1..Len(deltaUpdates) :
          deltaUpdates[k].type \in {"playerAdded", "playerRemoved"} =>
            \E l \in 1..Len(stateUpdates) :
              stateUpdates[l] = deltaUpdates[k] ]_vars

\* C25: the collision pass changes nothing but positions of players and
\* NPCs: every velocity, rotation, radius and collected list, the essences
\* and the change buffer are as before; a body is moved only if it overlaps,
\* with a distinct center, another body at the place where that body was
\* when the pass began or where the pass left it; and when every pair of
\* bodies is apart or has coinciding centers, nothing is moved at all.
C25_CollisionsMoveOnlyOverlappingBodies ==
  [][ (pc = "collisions" /\ pc' = "respawn") =>
        LET all == players \o npcs
            after == players' \o npcs'
        IN  /\ Len(players') = Len(players)
            /\ Len(npcs') = Len(npcs)
            /\ \A k \in 1..Len(all) :
                 [after[k] EXCEPT !.position = all[k].position] = all[k]
            /\ UNCHANGED << essences, deltaUpdates, entityIdCounter, tick,
                            crashed >>
            /\ ~crashed
            /\ (\A k, l \in 1..Len(all) : ~Overlapping(all[k], all[l]))
                 => after = all
            /\ \A k \in 1..Len(all) :
                 (\A l \in 1..Len(all) :
                    ~Overlapping(all[k], all[l])
                      /\ (after[l] = all[l] \/ ~Overlapping(all[k], after[l])))
                   => after[k] = all[k] ]_vars

\* the collision pass has run over two players whose centers coincide and
\* that no NPC overlaps: the two are still at the same place
C25_Witness ==
  /\ pc = "respawn"
  /\ Len(players) = 2
  /\ players[1].position = players[2].position
  /\ Len(npcs) > 0
  /\ \A j \in 1..Len(npcs) : ~Overlapping(players[1], npcs[j])

\* the players of ps that hold the essence id in their collected list
Holders(ps, id) ==
  { i \in 1..Len(ps) : \E k \in 1..Len(ps[i].essences) :
                          ps[i].essences[k] = id }

\* C28: an essence is collected at most once.  At all times an essence id
\* is in at most one collected list, at most once, never in a collected
\* list and in the essence collection at once, and in at most one
\* essenceCollected event of the buffer.  A step that collects essence e
\* gives it to the player at turn and to no other, and no player before it
\* in iteration order was within collection distance of e.
C28_CollectedAtMostOnce ==
  [][ /\ \A i \in 1..Len(players') : IsInjective(players'[i].essences)
      /\ \A id \in CollectedIds(WorldAfter) :
           /\ Cardinality(Holders(players', id)) = 1
           /\ ~HasId(essences', id)
      /\ \A k, l \in 1..Len(deltaUpdates') :
           (/\ deltaUpdates'[k].type = "essenceCollected"
            /\ deltaUpdates'[l].type = "essenceCollected"
            /\ deltaUpdates'[k].essenceId = deltaUpdates'[l].essenceId)
             => k = l
      /\ \A e \in 1..Len(essences) :
           ~HasId(essences', essences[e].id) =>
             /\ pc = "attraction"
             /\ Holders(players', essences[e].id) = {cursor}
             /\ Holders(players, essences[e].id) = {}
             /\ \A j \in 1..(cursor - 1) :
                  ~Collects(players[j], essences[e]) ]_vars

\* two players stand on the same point; the first has collected an essence
\* in this pass, and the second, now at turn, finds the id of that essence
\* among its candidates
C28_Witness ==
  /\ HasCandidate
  /\ cursor = 2
  /\ players[1].position = players[2].position
  /\ CandidateId \in Range(players[1].essences)
  /\ \E k \in 1..Len(deltaUpdates) :
       /\ deltaUpdates[k].type = "essenceCollected"
       /\ deltaUpdates[k].essenceId = CandidateId

\* C29: the liveness sweep never terminates a connection whose client
\* answers every ping of the server and keeps sending messages.  Every
\* client of SpecSweep answers each ping before the next sweep, so no
\* connection is ever terminated.
C29_ResponsiveConnectionsSurvive ==
  \A k \in 1..Len(calls) : calls[k].op # "terminate"

====
